----------------------------- MODULE Spec2Model -----------------------------
(***************************************************************************)
(* A model of the combo pipeline of mc-pauper-mtg-gemma-2b:                *)
(*   - discover_combos.py : discover_new_combos and the tail of main       *)
(*   - collect_combo_data.py : extract_card_features,                      *)
(*     generate_potential_combos, create_reasoning_examples and the        *)
(*     card-analysis loop of main                                          *)
(*   - combo_explorer.py : ComboExplorer.find_card, analyze_combo,         *)
(*     suggest_combo_pieces and interactive_mode                           *)
(*   - train_gemma.py : EmptyCacheCallback and the training call of main   *)
(*   - collect_mtg_data.py : process_card_data and                         *)
(*     create_training_examples                                            *)
(* Text is modelled as a sequence of one-character strings, so that        *)
(* str.lower(), the `in` substring test, slicing and str.join are          *)
(* computed character by character as Python computes them.                *)
(***************************************************************************)
EXTENDS Integers, Sequences, FiniteSets, TLC

VARIABLES
    cards,              \* the feature records given to the component
    known_combos,       \* the known-combo records given to the component
    pc,                 \* position of the running component
    combo_cards,        \* discover_new_combos: the local list `combo_cards`
    known_card_sets,    \* discover_new_combos: the local set `known_card_sets`
    i,                  \* enumerate() index of the current loop, 1-based
    discoveries,        \* discover_new_combos: the local list `discoveries`
    calls,              \* log of the generator invocations that returned
    genDefault,         \* generator: the outcome it produces by default
    deviated,           \* generator: it has already departed from genDefault
    failedAt,           \* candidate the generator raised on, or <<>>
    saved,              \* data/discovered_combos.json: written, content
    pairLimit,          \* the prefix combo_cards[:50] of the pair loop
    tripleLimit,        \* the prefix combo_cards[:30] of the triple loop
    firstRun,           \* result of an earlier run with smaller prefixes
    potential_combos,   \* main of collect_combo_data: `potential_combos`
    reasoning_examples, \* main of collect_combo_data: `reasoning_examples`
    card_examples,      \* main of collect_combo_data: `card_examples`
    all_training_data,  \* contents of data/combo_training_data.json
    raw_cards,          \* the raw card records fetched from the card service
    card_features,      \* main of collect_combo_data: `card_features`
    card_names,         \* analyze_combo: the argument `card_names`
    cards_found,        \* analyze_combo: the local list `cards_found`
    warnings,           \* analyze_combo: the names it printed a warning for
    prompts,            \* analyze_combo: the input texts given to generate
    result,             \* analyze_combo: the value returned, or <<>>
    processed_cards,    \* collect_mtg_data: `processed`
    training_examples,  \* collect_mtg_data: `training_examples`
    global_step,        \* train_gemma: state.global_step of the trainer
    cache_clears,       \* train_gemma: calls of torch.cuda.empty_cache()
    train_exit,         \* train_gemma: how trainer.train() ended, or "none"
    save_log,           \* train_gemma: the saves attempted after training
    user_input,         \* interactive_mode: the command being processed
    printed             \* interactive_mode: what the loop has printed

vars ==
    <<cards, known_combos, pc, combo_cards, known_card_sets, i, discoveries, calls, genDefault, deviated,
      failedAt, saved, pairLimit, tripleLimit, firstRun, potential_combos,
      reasoning_examples, card_examples, all_training_data, raw_cards,
      card_features, card_names, cards_found, warnings, prompts, result,
      processed_cards, training_examples, global_step, cache_clears,
      train_exit, save_log, user_input, printed>>

\* the variables of discover_combos.py
searchVars ==
    <<combo_cards, known_card_sets, i, discoveries, calls, genDefault,
      deviated, failedAt, saved, pairLimit, tripleLimit, firstRun>>

\* the variables of collect_combo_data.py
collectVars ==
    <<potential_combos, reasoning_examples, card_examples, all_training_data>>

\* the variables of extract_card_features and its loop in main
extractVars ==
    <<raw_cards, card_features>>

\* the variables of combo_explorer.py
explorerVars ==
    <<card_names, cards_found, warnings, prompts, result>>

\* the variables of collect_mtg_data.py
mtgVars ==
    <<processed_cards, training_examples>>

\* the variables of train_gemma.py and of ComboExplorer.interactive_mode
sessionVars ==
    <<global_step, cache_clears, train_exit, save_log, user_input, printed>>

\* the extractor, the explorer and collect_mtg_data have not run
ToolsIdle ==
    /\ raw_cards = <<>>
    /\ card_features = <<>>
    /\ card_names = <<>>
    /\ cards_found = <<>>
    /\ warnings = <<>>
    /\ prompts = <<>>
    /\ result = <<>>
    /\ processed_cards = <<>>
    /\ training_examples = <<>>

-----------------------------------------------------------------------------
(* Text: Python str as a sequence of characters                            *)

\* the letters str.lower() changes, and what it makes of them
Letters ==
    [upper |-> <<"A","B","C","D","E","F","G","H","I","J","K","L","M",
                 "N","O","P","Q","R","S","T","U","V","W","X","Y","Z">>,
     lower |-> <<"a","b","c","d","e","f","g","h","i","j","k","l","m",
                 "n","o","p","q","r","s","t","u","v","w","x","y","z">>,
     set |-> {"A","B","C","D","E","F","G","H","I","J","K","L","M",
              "N","O","P","Q","R","S","T","U","V","W","X","Y","Z"}]

\* str.lower()
Lower(s) ==
    [k \in 1..Len(s) |->
        IF s[k] \in Letters.set
        THEN Letters.lower[CHOOSE n \in 1..26 : Letters.upper[n] = s[k]]
        ELSE s[k]]

\* the substring test `sub in s`
Contains(sub, s) ==
    \E k \in 0..(Len(s) - Len(sub)) : SubSeq(s, k + 1, k + Len(sub)) = sub

\* the slice s[:n], of a str or of a list
Take(s, n) ==
    SubSeq(s, 1, IF Len(s) < n THEN Len(s) ELSE n)

Range(s) ==
    {s[k] : k \in 1..Len(s)}

-----------------------------------------------------------------------------
(* The texts of the programs and of the records the model is run on        *)

\* The answers the generator gives in the model: the two stubs the
\* specification names, one answer per keyword, in mixed case, and three
\* answers of more than 100 characters in which "yes" starts at character
\* 101 (LateYes), ends at character 100 (EdgeYes) or spans characters 99 to
\* 101 (SplitYes).
Answer ==
    [
     InfiniteLoop |->
         <<
         "T", "h", "i", "s", " ", "c", "r", "e", "a", "t", "e", "s", " ",
         "a", "n", " ", "i", "n", "f", "i", "n", "i", "t", "e", " ", "l",
         "o", "o", "p"
         >>,
     NoInteraction |->
         <<
         "N", "o", " ", "i", "n", "t", "e", "r", "a", "c", "t", "i", "o",
         "n", " ", "f", "o", "u", "n", "d"
         >>,
     UpperSynergy |->
         <<
         "A", " ", "s", "t", "r", "o", "n", "g", " ", "S", "Y", "N", "E",
         "R", "G", "Y"
         >>,
     Yes |->
         <<
         "Y", "e", "s"
         >>,
     Combo |->
         <<
         "C", "o", "m", "b", "o"
         >>,
     Loop |->
         <<
         "a", " ", "L", "o", "o", "p"
         >>,
     Repeatedly |->
         <<
         "R", "e", "p", "e", "a", "t", "e", "d", "l", "y"
         >>,
     LateYes |->
         <<"T","h","e","s","e"," ","c","a","r","d","s"," ","d","o"," ",
           "n","o","t"," ","i","n","t","e","r","a","c","t"," ","w","i",
           "t","h"," ","e","a","c","h"," ","o","t","h","e","r"," ","a",
           "t"," ","a","l","l","."," ","T","h","e","s","e"," ","c","a",
           "r","d","s"," ","d","o"," ","n","o","t"," ","i","n","t","e",
           "r","a","c","t"," ","w","i","t","h"," ","e","a","c","h"," ",
           "o","t","h","e","r"," ","a","t"," ","a","y","e","s">>,
     EdgeYes |->
         <<"T","h","e","s","e"," ","c","a","r","d","s"," ","d","o"," ",
           "n","o","t"," ","i","n","t","e","r","a","c","t"," ","w","i",
           "t","h"," ","e","a","c","h"," ","o","t","h","e","r"," ","a",
           "t"," ","a","l","l","."," ","T","h","e","s","e"," ","c","a",
           "r","d","s"," ","d","o"," ","n","o","t"," ","i","n","t","e",
           "r","a","c","t"," ","w","i","t","h"," ","e","a","c","h"," ",
           "o","t","h","e","r"," ","a","y","e","s">>,
     SplitYes |->
         <<"T","h","e","s","e"," ","c","a","r","d","s"," ","d","o"," ",
           "n","o","t"," ","i","n","t","e","r","a","c","t"," ","w","i",
           "t","h"," ","e","a","c","h"," ","o","t","h","e","r"," ","a",
           "t"," ","a","l","l","."," ","T","h","e","s","e"," ","c","a",
           "r","d","s"," ","d","o"," ","n","o","t"," ","i","n","t","e",
           "r","a","c","t"," ","w","i","t","h"," ","e","a","c","h"," ",
           "o","t","h","e","r"," ","a","t","y","e","s">>
    ]

\* The string literals of discover_new_combos.
DiscoverText ==
    [
     Combo |->
         <<
         "c", "o", "m", "b", "o"
         >>,
     Infinite |->
         <<
         "i", "n", "f", "i", "n", "i", "t", "e"
         >>,
     Synergy |->
         <<
         "s", "y", "n", "e", "r", "g", "y"
         >>,
     Loop |->
         <<
         "l", "o", "o", "p"
         >>,
     Repeatedly |->
         <<
         "r", "e", "p", "e", "a", "t", "e", "d", "l", "y"
         >>,
     Yes |->
         <<
         "y", "e", "s"
         >>,
     PotentiallyNew |->
         <<
         "p", "o", "t", "e", "n", "t", "i", "a", "l", "l", "y", "_", "n",
         "e", "w"
         >>
    ]

\* Texts of the card and combo records the model is run on.
SampleText ==
    [
     Draw |->
         <<
         "D", "r", "a", "w"
         >>,
     DrawUntap |->
         <<
         "D", "r", "a", "w", ",", " ", "u", "n", "t", "a", "p"
         >>,
     Instant |->
         <<
         "I", "n", "s", "t", "a", "n", "t"
         >>,
     Value |->
         <<
         "v", "a", "l", "u", "e"
         >>,
     InfiniteCapital |->
         <<
         "I", "n", "f", "i", "n", "i", "t", "e"
         >>,
     Cast |->
         <<
         "C", "a", "s", "t"
         >>,
     Exile |->
         <<
         "E", "x", "i", "l", "e"
         >>,
     Repeat |->
         <<
         "R", "e", "p", "e", "a", "t"
         >>
    ]

\* The string literals of generate_potential_combos.
PotentialText ==
    [
     EtbFlicker |->
         <<
         "E", "T", "B", " ", "+", " ", "F", "l", "i", "c", "k", "e", "r"
         >>,
     CanRepeatedlyTrigger |->
         <<
         " ", "c", "a", "n", " ", "r", "e", "p", "e", "a", "t", "e", "d",
         "l", "y", " ", "t", "r", "i", "g", "g", "e", "r", " "
         >>,
     EtbAbility |->
         <<
         "'", "s", " ", "e", "n", "t", "e", "r", "s", "-", "t", "h", "e",
         "-", "b", "a", "t", "t", "l", "e", "f", "i", "e", "l", "d", " ",
         "a", "b", "i", "l", "i", "t", "y"
         >>,
     FlickerEffect |->
         <<
         "F", "l", "i", "c", "k", "e", "r", " ", "e", "f", "f", "e", "c",
         "t"
         >>,
     EtbSource |->
         <<
         "E", "T", "B", " ", "t", "r", "i", "g", "g", "e", "r", " ", "s",
         "o", "u", "r", "c", "e"
         >>,
     WhenYouFlicker |->
         <<
         "W", "h", "e", "n", " ", "y", "o", "u", " ", "f", "l", "i", "c",
         "k", "e", "r", " "
         >>,
     With |->
         <<
         " ", "w", "i", "t", "h", " "
         >>,
     RepeatedValue |->
         <<
         ",", " ", "y", "o", "u", " ", "g", "e", "t", " ", "r", "e", "p",
         "e", "a", "t", "e", "d", " ", "v", "a", "l", "u", "e", " ", "f",
         "r", "o", "m", ":", " "
         >>,
     Ellipsis |->
         <<
         ".", ".", "."
         >>,
     UntapTap |->
         <<
         "U", "n", "t", "a", "p", " ", "+", " ", "T", "a", "p", " ", "A",
         "b", "i", "l", "i", "t", "y"
         >>,
     CanUntap |->
         <<
         " ", "c", "a", "n", " ", "u", "n", "t", "a", "p", " "
         >>,
     ToUseTap |->
         <<
         " ", "t", "o", " ", "u", "s", "e", " ", "i", "t", "s", " ", "t",
         "a", "p", " ", "a", "b", "i", "l", "i", "t", "y", " ", "m", "u",
         "l", "t", "i", "p", "l", "e", " ", "t", "i", "m", "e", "s"
         >>,
     UntapSource |->
         <<
         "U", "n", "t", "a", "p", " ", "s", "o", "u", "r", "c", "e"
         >>,
     TapAbility |->
         <<
         "T", "a", "p", " ", "a", "b", "i", "l", "i", "t", "y"
         >>,
     ByUntapping |->
         <<
         "B", "y", " ", "u", "n", "t", "a", "p", "p", "i", "n", "g", " "
         >>,
     MoreThanOnce |->
         <<
         ",", " ", "y", "o", "u", " ", "c", "a", "n", " ", "u", "s", "e",
         " ", "i", "t", "s", " ", "a", "b", "i", "l", "i", "t", "y", " ",
         "m", "o", "r", "e", " ", "t", "h", "a", "n", " ", "o", "n", "c",
         "e", " ", "p", "e", "r", " ", "t", "u", "r", "n"
         >>,
     TokenSacrifice |->
         <<
         "T", "o", "k", "e", "n", " ", "G", "e", "n", "e", "r", "a", "t",
         "i", "o", "n", " ", "+", " ", "S", "a", "c", "r", "i", "f", "i",
         "c", "e"
         >>,
     CreatesTokensFor |->
         <<
         " ", "c", "r", "e", "a", "t", "e", "s", " ", "t", "o", "k", "e",
         "n", "s", " ", "f", "o", "r", " "
         >>,
     ToSacrifice |->
         <<
         " ", "t", "o", " ", "s", "a", "c", "r", "i", "f", "i", "c", "e"
         >>,
     TokenGenerator |->
         <<
         "T", "o", "k", "e", "n", " ", "g", "e", "n", "e", "r", "a", "t",
         "o", "r"
         >>,
     SacrificeOutlet |->
         <<
         "S", "a", "c", "r", "i", "f", "i", "c", "e", " ", "o", "u", "t",
         "l", "e", "t"
         >>,
     TokenValue |->
         <<
         "T", "h", "i", "s", " ", "c", "r", "e", "a", "t", "e", "s", " ",
         "v", "a", "l", "u", "e", " ", "b", "y", " ", "g", "e", "n", "e",
         "r", "a", "t", "i", "n", "g", " ", "t", "o", "k", "e", "n", "s",
         " ", "t", "o", " ", "f", "u", "e", "l", " ", "s", "a", "c", "r",
         "i", "f", "i", "c", "e", " ", "e", "f", "f", "e", "c", "t", "s"
         >>
    ]

\* The string literals of create_reasoning_examples.
ReasoningText ==
    [
     Infinite |->
         <<
         "i", "n", "f", "i", "n", "i", "t", "e"
         >>,
     AnalyzeInfinite |->
         <<
         "A", "n", "a", "l", "y", "z", "e", " ", "i", "f", " ", "t", "h",
         "e", "s", "e", " ", "c", "a", "r", "d", "s", " ", "c", "r", "e",
         "a", "t", "e", " ", "a", "n", " ", "i", "n", "f", "i", "n", "i",
         "t", "e", " ", "c", "o", "m", "b", "o", " ", "i", "n", " ", "P",
         "a", "u", "p", "e", "r", " ", "f", "o", "r", "m", "a", "t", "."
         >>,
     Cards |->
         <<
         "C", "a", "r", "d", "s", ":", " "
         >>,
     CommaSpace |->
         <<
         ",", " "
         >>,
     YesInfinite |->
         <<
         "Y", "e", "s", ",", " ", "t", "h", "i", "s", " ", "i", "s", " ",
         "a", "n", " ", "i", "n", "f", "i", "n", "i", "t", "e", " ", "c",
         "o", "m", "b", "o", ".", " ", "H", "e", "r", "e", "'", "s", " ",
         "h", "o", "w", " ", "i", "t", " ", "w", "o", "r", "k", "s", ":",
         "\n", "\n"
         >>,
     Description |->
         <<
         "D", "e", "s", "c", "r", "i", "p", "t", "i", "o", "n", ":", " "
         >>,
     BlankLine |->
         <<
         "\n", "\n"
         >>,
     Steps |->
         <<
         "S", "t", "e", "p", "s", ":", "\n"
         >>,
     Newline |->
         <<
         "\n"
         >>,
     DotSpace |->
         <<
         ".", " "
         >>,
     Result |->
         <<
         "\n", "\n", "R", "e", "s", "u", "l", "t", ":", " "
         >>,
     Requirements |->
         <<
         "R", "e", "q", "u", "i", "r", "e", "m", "e", "n", "t", "s", ":",
         " "
         >>,
     ExplainInteraction |->
         <<
         "E", "x", "p", "l", "a", "i", "n", " ", "h", "o", "w", " ", "t",
         "h", "e", "s", "e", " ", "t", "w", "o", " ", "c", "a", "r", "d",
         "s", " ", "i", "n", "t", "e", "r", "a", "c", "t", " ", "i", "n",
         " ", "a", " ", "P", "a", "u", "p", "e", "r", " ", "c", "o", "m",
         "b", "o", "."
         >>,
     Card1 |->
         <<
         "C", "a", "r", "d", " ", "1", ":", " "
         >>,
     Card2 |->
         <<
         "\n", "\n", "C", "a", "r", "d", " ", "2", ":", " "
         >>,
     Synergistic |->
         <<
         "T", "h", "e", "s", "e", " ", "c", "a", "r", "d", "s", " ", "c",
         "r", "e", "a", "t", "e", " ", "a", " ", "s", "y", "n", "e", "r",
         "g", "i", "s", "t", "i", "c", " ", "i", "n", "t", "e", "r", "a",
         "c", "t", "i", "o", "n", ":", "\n", "\n"
         >>,
     WorkTogether |->
         <<
         "T", "h", "e", "s", "e", " ", "c", "a", "r", "d", "s", " ", "w",
         "o", "r", "k", " ", "t", "o", "g", "e", "t", "h", "e", "r", "."
         >>,
     KeyInteraction |->
         <<
         "K", "e", "y", " ", "i", "n", "t", "e", "r", "a", "c", "t", "i",
         "o", "n", ":", " "
         >>,
     EnableEachOther |->
         <<
         "T", "h", "e", "y", " ", "e", "n", "a", "b", "l", "e", " ", "e",
         "a", "c", "h", " ", "o", "t", "h", "e", "r", "."
         >>
    ]

\* The texts of the three hand-written examples of
\* create_reasoning_examples; "->" stands for the arrow character of the
\* source text.
FixedText ==
    [
     Fixed1Instruction |->
         <<
         "W", "h", "a", "t", " ", "t", "y", "p", "e", "s", " ", "o", "f",
         " ", "c", "a", "r", "d", "s", " ", "w", "o", "u", "l", "d", " ",
         "c", "o", "m", "b", "o", " ", "w", "e", "l", "l", " ", "w", "i",
         "t", "h", " ", "t", "h", "i", "s", " ", "c", "a", "r", "d", "?"
         >>,
     Fixed1Input |->
         <<
         "C", "a", "r", "d", ":", " ", "M", "i", "d", "n", "i", "g", "h",
         "t", " ", "G", "u", "a", "r", "d", "\n", "T", "e", "x", "t", ":",
         " ", "W", "h", "e", "n", "e", "v", "e", "r", " ", "a", "n", "o",
         "t", "h", "e", "r", " ", "c", "r", "e", "a", "t", "u", "r", "e",
         " ", "e", "n", "t", "e", "r", "s", " ", "t", "h", "e", " ", "b",
         "a", "t", "t", "l", "e", "f", "i", "e", "l", "d", " ", "u", "n",
         "d", "e", "r", " ", "y", "o", "u", "r", " ", "c", "o", "n", "t",
         "r", "o", "l", ",", " ", "u", "n", "t", "a", "p", " ", "M", "i",
         "d", "n", "i", "g", "h", "t", " ", "G", "u", "a", "r", "d", "."
         >>,
     Fixed1Output |->
         <<
         "M", "i", "d", "n", "i", "g", "h", "t", " ", "G", "u", "a", "r",
         "d", " ", "c", "o", "m", "b", "o", "s", " ", "w", "e", "l", "l",
         " ", "w", "i", "t", "h", ":", "\n", "\n", "1", ".", " ", "C", "a",
         "r", "d", "s", " ", "t", "h", "a", "t", " ", "c", "r", "e", "a",
         "t", "e", " ", "t", "o", "k", "e", "n", "s", " ", "w", "h", "e",
         "n", " ", "i", "t", " ", "t", "a", "p", "s", " ", "(", "l", "i",
         "k", "e", " ", "P", "r", "e", "s", "e", "n", "c", "e", " ", "o",
         "f", " ", "G", "o", "n", "d", ")", " ", "-", " ", "c", "r", "e",
         "a", "t", "e", "s", " ", "i", "n", "f", "i", "n", "i", "t", "e",
         " ", "t", "o", "k", "e", "n", "s", "\n", "2", ".", " ", "C", "a",
         "r", "d", "s", " ", "w", "i", "t", "h", " ", "b", "e", "n", "e",
         "f", "i", "c", "i", "a", "l", " ", "t", "a", "p", " ", "a", "b",
         "i", "l", "i", "t", "i", "e", "s", "\n", "3", ".", " ", "C", "a",
         "r", "d", "s", " ", "t", "h", "a", "t", " ", "g", "e", "n", "e",
         "r", "a", "t", "e", " ", "m", "u", "l", "t", "i", "p", "l", "e",
         " ", "c", "r", "e", "a", "t", "u", "r", "e", "s", "\n", "\n", "T",
         "h", "e", " ", "k", "e", "y", " ", "i", "s", " ", "t", "h", "a",
         "t", " ", "i", "t", " ", "u", "n", "t", "a", "p", "s", " ", "w",
         "h", "e", "n", "e", "v", "e", "r", " ", "a", " ", "c", "r", "e",
         "a", "t", "u", "r", "e", " ", "e", "n", "t", "e", "r", "s", ",",
         " ", "s", "o", " ", "y", "o", "u", " ", "w", "a", "n", "t", " ",
         "e", "f", "f", "e", "c", "t", "s", " ", "t", "h", "a", "t", " ",
         "t", "r", "i", "g", "g", "e", "r", " ", "w", "h", "e", "n", " ",
         "y", "o", "u", " ", "t", "a", "p", " ", "i", "t", " ", "A", "N",
         "D", " ", "c", "r", "e", "a", "t", "e", " ", "c", "r", "e", "a",
         "t", "u", "r", "e", "s", "."
         >>,
     Fixed2Instruction |->
         <<
         "I", "d", "e", "n", "t", "i", "f", "y", " ", "w", "h", "a", "t",
         " ", "m", "a", "k", "e", "s", " ", "t", "h", "i", "s", " ", "a",
         " ", "c", "o", "m", "b", "o", " ", "p", "i", "e", "c", "e", "."
         >>,
     Fixed2Input |->
         <<
         "C", "a", "r", "d", ":", " ", "G", "h", "o", "s", "t", "l", "y",
         " ", "F", "l", "i", "c", "k", "e", "r", "\n", "T", "e", "x", "t",
         ":", " ", "E", "x", "i", "l", "e", " ", "t", "w", "o", " ", "t",
         "a", "r", "g", "e", "t", " ", "a", "r", "t", "i", "f", "a", "c",
         "t", "s", ",", " ", "c", "r", "e", "a", "t", "u", "r", "e", "s",
         ",", " ", "a", "n", "d", "/", "o", "r", " ", "l", "a", "n", "d",
         "s", " ", "y", "o", "u", " ", "c", "o", "n", "t", "r", "o", "l",
         ",", " ", "t", "h", "e", "n", " ", "r", "e", "t", "u", "r", "n",
         " ", "t", "h", "o", "s", "e", " ", "c", "a", "r", "d", "s", " ",
         "t", "o", " ", "t", "h", "e", " ", "b", "a", "t", "t", "l", "e",
         "f", "i", "e", "l", "d", " ", "u", "n", "d", "e", "r", " ", "y",
         "o", "u", "r", " ", "c", "o", "n", "t", "r", "o", "l", "."
         >>,
     Fixed2Output |->
         <<
         "G", "h", "o", "s", "t", "l", "y", " ", "F", "l", "i", "c", "k",
         "e", "r", " ", "i", "s", " ", "a", " ", "c", "o", "m", "b", "o",
         " ", "e", "n", "a", "b", "l", "e", "r", " ", "b", "e", "c", "a",
         "u", "s", "e", ":", "\n", "\n", "1", ".", " ", "I", "t", " ", "c",
         "a", "n", " ", "t", "a", "r", "g", "e", "t", " ", "c", "r", "e",
         "a", "t", "u", "r", "e", "s", " ", "w", "i", "t", "h", " ", "E",
         "T", "B", " ", "a", "b", "i", "l", "i", "t", "i", "e", "s", " ",
         "f", "o", "r", " ", "r", "e", "p", "e", "a", "t", "e", "d", " ",
         "v", "a", "l", "u", "e", "\n", "2", ".", " ", "I", "t", " ", "c",
         "a", "n", " ", "t", "a", "r", "g", "e", "t", " ", "i", "t", "s",
         "e", "l", "f", " ", "b", "y", " ", "f", "l", "i", "c", "k", "e",
         "r", "i", "n", "g", " ", "c", "r", "e", "a", "t", "u", "r", "e",
         "s", " ", "t", "h", "a", "t", " ", "r", "e", "t", "u", "r", "n",
         " ", "i", "n", "s", "t", "a", "n", "t", "s", "/", "s", "o", "r",
         "c", "e", "r", "i", "e", "s", " ", "(", "l", "i", "k", "e", " ",
         "A", "r", "c", "h", "a", "e", "o", "m", "a", "n", "c", "e", "r",
         ")", "\n", "3", ".", " ", "I", "t", " ", "c", "a", "n", " ", "u",
         "n", "t", "a", "p", " ", "l", "a", "n", "d", "s", " ", "f", "o",
         "r", " ", "m", "a", "n", "a", " ", "g", "e", "n", "e", "r", "a",
         "t", "i", "o", "n", "\n", "4", ".", " ", "I", "t", "'", "s", " ",
         "a", "n", " ", "i", "n", "s", "t", "a", "n", "t", ",", " ", "s",
         "o", " ", "i", "t", " ", "h", "a", "s", " ", "f", "l", "e", "x",
         "i", "b", "i", "l", "i", "t", "y", "\n", "\n", "L", "o", "o", "k",
         " ", "f", "o", "r", " ", "c", "r", "e", "a", "t", "u", "r", "e",
         "s", " ", "w", "i", "t", "h", " ", "'", "w", "h", "e", "n", " ",
         "e", "n", "t", "e", "r", "s", " ", "t", "h", "e", " ", "b", "a",
         "t", "t", "l", "e", "f", "i", "e", "l", "d", "'", " ", "t", "h",
         "a", "t", " ", "r", "e", "t", "u", "r", "n", " ", "i", "n", "s",
         "t", "a", "n", "t", " ", "c", "a", "r", "d", "s", ",", " ", "o",
         "r", " ", "c", "r", "e", "a", "t", "u", "r", "e", "s", " ", "t",
         "h", "a", "t", " ", "u", "n", "t", "a", "p", " ", "l", "a", "n",
         "d", "s", "."
         >>,
     Fixed3Instruction |->
         <<
         "W", "a", "l", "k", " ", "t", "h", "r", "o", "u", "g", "h", " ",
         "h", "o", "w", " ", "t", "o", " ", "i", "d", "e", "n", "t", "i",
         "f", "y", " ", "i", "f", " ", "c", "a", "r", "d", "s", " ", "f",
         "o", "r", "m", " ", "a", "n", " ", "i", "n", "f", "i", "n", "i",
         "t", "e", " ", "l", "o", "o", "p", "."
         >>,
     Fixed3Input |->
         <<
         "I", " ", "h", "a", "v", "e", " ", "F", "a", "m", "i", "s", "h",
         "e", "d", " ", "P", "a", "l", "a", "d", "i", "n", " ", "(", "u",
         "n", "t", "a", "p", "s", " ", "w", "h", "e", "n", " ", "I", " ",
         "g", "a", "i", "n", " ", "l", "i", "f", "e", ")", ",", " ", "P",
         "r", "e", "s", "e", "n", "c", "e", " ", "o", "f", " ", "G", "o",
         "n", "d", " ", "(", "e", "n", "c", "h", "a", "n", "t", "m", "e",
         "n", "t", " ", "t", "h", "a", "t", " ", "l", "e", "t", "s", " ",
         "m", "e", " ", "t", "a", "p", " ", "t", "o", " ", "c", "r", "e",
         "a", "t", "e", " ", "a", " ", "1", "/", "1", " ", "e", "l", "f",
         ")", ",", " ", "a", "n", "d", " ", "S", "o", "u", "l", " ", "W",
         "a", "r", "d", "e", "n", " ", "(", "g", "a", "i", "n", " ", "1",
         " ", "l", "i", "f", "e", " ", "w", "h", "e", "n", " ", "c", "r",
         "e", "a", "t", "u", "r", "e", " ", "e", "n", "t", "e", "r", "s",
         ")", ".", " ", "I", "s", " ", "t", "h", "i", "s", " ", "i", "n",
         "f", "i", "n", "i", "t", "e", "?"
         >>,
     Fixed3Output |->
         <<
         "L", "e", "t", " ", "m", "e", " ", "a", "n", "a", "l", "y", "z",
         "e", " ", "t", "h", "i", "s", " ", "s", "t", "e", "p", "-", "b",
         "y", "-", "s", "t", "e", "p", ":", "\n", "\n", "S", "t", "e", "p",
         " ", "1", ":", " ", "I", "d", "e", "n", "t", "i", "f", "y", " ",
         "t", "h", "e", " ", "t", "r", "i", "g", "g", "e", "r", " ", "-",
         " ", "F", "a", "m", "i", "s", "h", "e", "d", " ", "P", "a", "l",
         "a", "d", "i", "n", " ", "u", "n", "t", "a", "p", "s", " ", "w",
         "h", "e", "n", " ", "y", "o", "u", " ", "g", "a", "i", "n", " ",
         "l", "i", "f", "e", "\n", "S", "t", "e", "p", " ", "2", ":", " ",
         "I", "d", "e", "n", "t", "i", "f", "y", " ", "t", "h", "e", " ",
         "a", "c", "t", "i", "o", "n", " ", "-", " ", "P", "r", "e", "s",
         "e", "n", "c", "e", " ", "o", "f", " ", "G", "o", "n", "d", " ",
         "l", "e", "t", "s", " ", "P", "a", "l", "a", "d", "i", "n", " ",
         "t", "a", "p", " ", "t", "o", " ", "c", "r", "e", "a", "t", "e",
         " ", "a", " ", "t", "o", "k", "e", "n", "\n", "S", "t", "e", "p",
         " ", "3", ":", " ", "I", "d", "e", "n", "t", "i", "f", "y", " ",
         "t", "h", "e", " ", "l", "o", "o", "p", " ", "c", "l", "o", "s",
         "e", "r", " ", "-", " ", "S", "o", "u", "l", " ", "W", "a", "r",
         "d", "e", "n", " ", "g", "a", "i", "n", "s", " ", "l", "i", "f",
         "e", " ", "w", "h", "e", "n", " ", "c", "r", "e", "a", "t", "u",
         "r", "e", " ", "e", "n", "t", "e", "r", "s", "\n", "S", "t", "e",
         "p", " ", "4", ":", " ", "T", "e", "s", "t", " ", "t", "h", "e",
         " ", "l", "o", "o", "p", ":", "\n", " ", " ", "-", " ", "T", "a",
         "p", " ", "P", "a", "l", "a", "d", "i", "n", " ", "-", ">", " ",
         "C", "r", "e", "a", "t", "e", " ", "E", "l", "f", " ", "t", "o",
         "k", "e", "n", "\n", " ", " ", "-", " ", "E", "l", "f", " ", "e",
         "n", "t", "e", "r", "s", " ", "-", ">", " ", "S", "o", "u", "l",
         " ", "W", "a", "r", "d", "e", "n", " ", "t", "r", "i", "g", "g",
         "e", "r", "s", ",", " ", "g", "a", "i", "n", " ", "1", " ", "l",
         "i", "f", "e", "\n", " ", " ", "-", " ", "G", "a", "i", "n", " ",
         "l", "i", "f", "e", " ", "-", ">", " ", "F", "a", "m", "i", "s",
         "h", "e", "d", " ", "P", "a", "l", "a", "d", "i", "n", " ", "u",
         "n", "t", "a", "p", "s", "\n", " ", " ", "-", " ", "L", "o", "o",
         "p", " ", "b", "a", "c", "k", " ", "t", "o", " ", "s", "t", "e",
         "p", " ", "1", "\n", "\n", "C", "o", "n", "c", "l", "u", "s", "i",
         "o", "n", ":", " ", "Y", "E", "S", ",", " ", "t", "h", "i", "s",
         " ", "i", "s", " ", "a", "n", " ", "i", "n", "f", "i", "n", "i",
         "t", "e", " ", "c", "o", "m", "b", "o", " ", "c", "r", "e", "a",
         "t", "i", "n", "g", " ", "i", "n", "f", "i", "n", "i", "t", "e",
         " ", "1", "/", "1", " ", "e", "l", "v", "e", "s", " ", "a", "n",
         "d", " ", "i", "n", "f", "i", "n", "i", "t", "e", " ", "l", "i",
         "f", "e", "."
         >>
    ]

\* The string literals of the card-analysis loop of main.
AnalysisText ==
    [
     AnalyzeCard |->
         <<
         "A", "n", "a", "l", "y", "z", "e", " ", "t", "h", "i", "s", " ",
         "P", "a", "u", "p", "e", "r", " ", "c", "a", "r", "d", " ", "f",
         "o", "r", " ", "c", "o", "m", "b", "o", " ", "p", "o", "t", "e",
         "n", "t", "i", "a", "l", "."
         >>,
     Card |->
         <<
         "C", "a", "r", "d", ":", " "
         >>,
     ManaCost |->
         <<
         "\n", "M", "a", "n", "a", " ", "C", "o", "s", "t", ":", " "
         >>,
     Type |->
         <<
         "\n", "T", "y", "p", "e", ":", " "
         >>,
     Text |->
         <<
         "\n", "T", "e", "x", "t", ":", " "
         >>,
     CardAnalysis |->
         <<
         "C", "a", "r", "d", " ", "A", "n", "a", "l", "y", "s", "i", "s",
         ":", "\n", "\n", "T", "y", "p", "e", ":", " "
         >>,
     KeyAbilities |->
         <<
         "K", "e", "y", " ", "A", "b", "i", "l", "i", "t", "i", "e", "s",
         ":", " "
         >>,
     ComboPotential |->
         <<
         "C", "o", "m", "b", "o", " ", "P", "o", "t", "e", "n", "t", "i",
         "a", "l", ":", " "
         >>,
     High |->
         <<
         "H", "i", "g", "h"
         >>,
     Medium |->
         <<
         "M", "e", "d", "i", "u", "m"
         >>,
     Low |->
         <<
         "L", "o", "w"
         >>
    ]

-----------------------------------------------------------------------------
(* Bounds of the model                                                     *)

\* longest card list given to discover_new_combos
MaxCards == 6
\* stands for the 50 of combo_cards[:50] (discover_combos.py line 107)
PairPrefix == 5
\* stands for the 30 of combo_cards[:30] (discover_combos.py line 132)
TriplePrefix == 4
\* stands for the 20 of `if i >= 20: break` (discover_combos.py line 133)
TripleBudget == 3

-----------------------------------------------------------------------------
(* Records                                                                 *)

\* str(n) for a natural number n, as in f"{i+1}"
RECURSIVE DecStr(_)
DecStr(n) ==
    LET Digits == <<"0","1","2","3","4","5","6","7","8","9">>
    IN  IF n < 10 THEN <<Digits[n + 1]>>
        ELSE DecStr(n \div 10) \o <<Digits[(n % 10) + 1]>>

\* the keys of the "abilities" mapping of a feature record
AbilityNames ==
    {"enters_battlefield", "leaves_battlefield", "dies", "draw", "untap",
     "tap_ability", "sacrifice", "return_to_hand", "flicker", "create_token",
     "add_mana", "storm", "cost_reduction", "bounce", "copy_spell", "tutor",
     "recur"}

\* the "abilities" mapping whose true flags are `on`
Abilities(on) ==
    [a \in AbilityNames |-> a \in on]

\* sum(card["abilities"].values())
AbilityCount(card) ==
    Cardinality({a \in AbilityNames : card.abilities[a]})

\* the name of the k-th card of the database: "c1", "c2", ...
CardName(k) ==
    <<"c">> \o DecStr(k)

\* a feature record of data/pauper_cards_detailed.json with two true
\* ability flags (high) or one
SearchCard(k, high) ==
    [name |-> CardName(k),
     mana_cost |-> <<"{","U","}">>,
     type_line |-> SampleText.Instant,
     oracle_text |-> IF high THEN SampleText.DrawUntap ELSE SampleText.Draw,
     abilities |-> Abilities(IF high THEN {"draw", "untap"} ELSE {"draw"}),
     is_creature |-> FALSE]

\* a record of data/known_combos.json naming the cards `names`
KnownCombo(names, type) ==
    [cards |-> names,
     description |-> <<"m","a","n","a">>,
     steps |-> << <<"t","a","p">>, <<"u","n","t","a","p">> >>,
     requirements |-> << <<"l","a","n","d">> >>,
     result |-> <<"w","i","n">>,
     type |-> type]

\* the known-combo files the search is run against
KnownComboFiles ==
    { <<>>,
      << KnownCombo(<<CardName(3), CardName(1), CardName(2)>>, ReasoningText.Infinite),
         KnownCombo(<<CardName(4), CardName(3)>>, ReasoningText.Infinite),
         KnownCombo(<<CardName(1), CardName(2), CardName(3), CardName(4)>>,
                    ReasoningText.Infinite) >> }

-----------------------------------------------------------------------------
(* The generator collaborator (generate_response)                          *)

Responses ==
    {Answer.InfiniteLoop, Answer.NoInteraction, Answer.UpperSynergy,
     Answer.Yes, Answer.Combo, Answer.Loop, Answer.Repeatedly,
     Answer.LateYes, Answer.EdgeYes, Answer.SplitYes}

\* model.generate raised
GeneratorError ==
    [ok |-> FALSE, text |-> <<>>]

Outcomes ==
    {[ok |-> TRUE, text |-> r] : r \in Responses} \cup {GeneratorError}

\* the stub generators of the end-to-end scenarios: what they always answer
StubAnswers ==
    {[ok |-> TRUE, text |-> Answer.InfiniteLoop],
     [ok |-> TRUE, text |-> Answer.NoInteraction]}

\* One invocation of the generator with outcome o. The generator returns
\* genDefault on every call, except that it may depart from it on one call
\* of a run (it samples: equal prompts may get different answers).
generate_response(o) ==
    /\ o \in Outcomes
    /\ \/ o = genDefault /\ deviated' = deviated
       \/ o # genDefault /\ ~deviated /\ deviated' = TRUE

-----------------------------------------------------------------------------
(* discover_new_combos                                                     *)

\* itertools.combinations(range(lo, n+1), r): the r-subsets of lo..n as
\* increasing tuples, in lexicographic order
RECURSIVE CombinationsFrom(_, _, _)
CombinationsFrom(lo, n, r) ==
    IF r = 0 THEN << <<>> >>
    ELSE IF lo > n THEN <<>>
    ELSE LET rest == CombinationsFrom(lo + 1, n, r - 1)
         IN  [k \in 1..Len(rest) |-> <<lo>> \o rest[k]]
             \o CombinationsFrom(lo + 1, n, r)

combinations(n, r) ==
    CombinationsFrom(1, n, r)

\* the filter with the threshold 1 instead of 2
IsHighPotential_AtLeastOne(card) ==
    AbilityCount(card) >= 1

\* lines 91-95: the cards with at least two true ability flags, in order
IsHighPotential(card) ==
    AbilityCount(card) >= 2

HighPotential(cs) ==
    SelectSeq(cs, IsHighPotential)

\* frozenset(names)
CardSet(names) ==
    Range(names)

\* lines 99-101
KnownCardSets(combos) ==
    {CardSet(combos[k].cards) : k \in 1..Len(combos)}

\* line 107: combinations(combo_cards[:50], 2), as index tuples
PairCandidates ==
    combinations(Len(Take(combo_cards, pairLimit)), 2)

\* line 132: combinations(combo_cards[:30], 3), as index tuples
TripleCandidates ==
    combinations(Len(Take(combo_cards, tripleLimit)), 3)

\* the names of the cards of candidate c (a tuple of indices)
CandidateNames(c) ==
    [k \in 1..Len(c) |-> combo_cards[c[k]].name]

PairKeywords ==
    <<DiscoverText.Combo, DiscoverText.Infinite, DiscoverText.Synergy, DiscoverText.Loop, DiscoverText.Repeatedly>>

\* the keyword test on the answer as returned, not lower-cased
IsComboSignal_CaseSensitive(analysis) ==
    \E k \in 1..Len(PairKeywords) : Contains(PairKeywords[k], analysis)

\* lines 116-119
IsComboSignal(analysis) ==
    LET lowered == Lower(analysis)
    IN  \E k \in 1..Len(PairKeywords) : Contains(PairKeywords[k], lowered)

\* the test with "yes" looked for in the whole answer
IsInfiniteSignal_YesAnywhere(analysis) ==
    LET lowered == Lower(analysis)
    IN  \/ Contains(DiscoverText.Infinite, lowered)
        \/ Contains(DiscoverText.Yes, lowered)

\* line 145
IsInfiniteSignal(analysis) ==
    LET lowered == Lower(analysis)
    IN  \/ Contains(DiscoverText.Infinite, lowered)
        \/ Contains(DiscoverText.Yes, Take(lowered, 100))

\* lines 122-126 and 148-152
Discovery(names, analysis) ==
    [cards |-> names, analysis |-> analysis, novelty |-> DiscoverText.PotentiallyNew]

\* the record put at the head of the list
RecordDiscovery_AtHead(list, names, analysis) ==
    <<Discovery(names, analysis)>> \o list

\* lines 121 and 147: discoveries.append(...)
RecordDiscovery(list, names, analysis) ==
    Append(list, Discovery(names, analysis))

\* the exclusion test keyed by the list of names instead of their set
IsKnownCombo_ByList(names) ==
    \E k \in 1..Len(known_combos) : known_combos[k].cards = names

\* lines 108-110 and 136-138: card_set in known_card_sets
IsKnownCombo(names) ==
    CardSet(names) \in known_card_sets

\* the current candidate of the loop at pc
Current ==
    IF pc = "pairs" THEN PairCandidates[i] ELSE TripleCandidates[i]

InPairLoop ==
    pc = "pairs" /\ i <= Len(PairCandidates)

\* the triple loop with `if i > 20: break`
InTripleLoop_OneMore ==
    pc = "triples" /\ i <= Len(TripleCandidates) /\ i <= TripleBudget + 1

\* line 132-134: the loop body runs while candidates remain and i < 20
InTripleLoop ==
    pc = "triples" /\ i <= Len(TripleCandidates) /\ i <= TripleBudget

InLoop ==
    InPairLoop \/ InTripleLoop

\* the start of the search that filters the list `cards` itself
StartSearch_FilterInPlace ==
    /\ pc = "start"
    /\ combo_cards' = HighPotential(cards)
    /\ cards' = HighPotential(cards)
    /\ known_card_sets' = KnownCardSets(known_combos)
    /\ discoveries' = <<>>
    /\ i' = 1
    /\ pc' = "pairs"
    /\ UNCHANGED <<known_combos, calls, genDefault, deviated, failedAt,
                   saved, pairLimit, tripleLimit, firstRun>>
    /\ UNCHANGED <<collectVars, extractVars, explorerVars, mtgVars>>
    /\ UNCHANGED sessionVars

\* lines 86-106: filter the cards, build the exclusion set, start the pair loop
StartSearch ==
    /\ pc = "start"
    /\ combo_cards' = HighPotential(cards)
    /\ known_card_sets' = KnownCardSets(known_combos)
    /\ discoveries' = <<>>
    /\ i' = 1
    /\ pc' = "pairs"
    /\ UNCHANGED <<cards, known_combos, calls, genDefault, deviated, failedAt,
                   saved, pairLimit, tripleLimit, firstRun>>
    /\ UNCHANGED <<collectVars, extractVars, explorerVars, mtgVars>>
    /\ UNCHANGED sessionVars

\* lines 110 and 138, known combo: the candidate is skipped
SkipKnown ==
    /\ InLoop
    /\ IsKnownCombo(CandidateNames(Current))
    /\ i' = i + 1
    /\ UNCHANGED <<cards, known_combos, combo_cards, known_card_sets,
                   pc, discoveries, calls, genDefault,
                   deviated, failedAt, saved, pairLimit, tripleLimit, firstRun>>
    /\ UNCHANGED <<collectVars, extractVars, explorerVars, mtgVars>>
    /\ UNCHANGED sessionVars

\* lines 111-128 and 139-155: the generator answers; the candidate is
\* recorded when the answer carries a combo signal
TestCandidate ==
    /\ InLoop
    /\ ~IsKnownCombo(CandidateNames(Current))
    /\ \E o \in Outcomes :
        /\ o.ok
        /\ generate_response(o)
        /\ calls' = Append(calls, [index |-> Current,
                                   cards |-> CandidateNames(Current),
                                   analysis |-> o.text])
        /\ discoveries' =
              IF (IF pc = "pairs" THEN IsComboSignal(o.text)
                  ELSE IsInfiniteSignal(o.text))
              THEN RecordDiscovery(discoveries, CandidateNames(Current), o.text)
              ELSE discoveries
    /\ i' = i + 1
    /\ UNCHANGED <<cards, known_combos, combo_cards, known_card_sets,
                   pc, genDefault, failedAt, saved,
                   pairLimit, tripleLimit, firstRun>>
    /\ UNCHANGED <<collectVars, extractVars, explorerVars, mtgVars>>
    /\ UNCHANGED sessionVars

\* lines 113 and 143: the generator raises; nothing catches the exception
\* in discover_new_combos or in main, so the process ends with a traceback
GeneratorFails ==
    /\ InLoop
    /\ ~IsKnownCombo(CandidateNames(Current))
    /\ generate_response(GeneratorError)
    /\ failedAt' = CandidateNames(Current)
    /\ pc' = "terminated"
    /\ UNCHANGED <<cards, known_combos, combo_cards, known_card_sets,
                   i, discoveries, calls, genDefault,
                   saved, pairLimit, tripleLimit, firstRun>>
    /\ UNCHANGED <<collectVars, extractVars, explorerVars, mtgVars>>
    /\ UNCHANGED sessionVars

\* Ctrl-C during the search: KeyboardInterrupt is not caught either
Interrupt ==
    /\ InLoop
    /\ pc' = "interrupted"
    /\ UNCHANGED <<cards, known_combos, combo_cards, known_card_sets,
                   i, discoveries, calls, genDefault,
                   deviated, failedAt, saved, pairLimit, tripleLimit, firstRun>>
    /\ UNCHANGED <<collectVars, extractVars, explorerVars, mtgVars>>
    /\ UNCHANGED sessionVars

\* line 107: the pair loop is exhausted; line 132 starts the triple loop
PairsDone ==
    /\ pc = "pairs" /\ ~InPairLoop
    /\ pc' = "triples"
    /\ i' = 1
    /\ UNCHANGED <<cards, known_combos, combo_cards, known_card_sets,
                   discoveries, calls, genDefault,
                   deviated, failedAt, saved, pairLimit, tripleLimit, firstRun>>
    /\ UNCHANGED <<collectVars, extractVars, explorerVars, mtgVars>>
    /\ UNCHANGED sessionVars

\* lines 132-134 and 156: the triple loop ends or breaks; return discoveries
TriplesDone ==
    /\ pc = "triples" /\ ~InTripleLoop
    /\ pc' = "returned"
    /\ UNCHANGED <<cards, known_combos, combo_cards, known_card_sets,
                   i, discoveries, calls, genDefault,
                   deviated, failedAt, saved, pairLimit, tripleLimit, firstRun>>
    /\ UNCHANGED <<collectVars, extractVars, explorerVars, mtgVars>>
    /\ UNCHANGED sessionVars

\* main, lines 189-193: json.dump(discoveries, f)
SaveDiscoveries ==
    /\ pc = "returned"
    /\ saved' = [written |-> TRUE, content |-> discoveries]
    /\ pc' = "saved"
    /\ UNCHANGED <<cards, known_combos, combo_cards, known_card_sets,
                   i, discoveries, calls, genDefault,
                   deviated, failedAt, pairLimit, tripleLimit, firstRun>>
    /\ UNCHANGED <<collectVars, extractVars, explorerVars, mtgVars>>
    /\ UNCHANGED sessionVars

\* the card databases: n cards, of which card `low` (if any) has a single
\* true ability flag
CardDatabase(n, low) ==
    [k \in 1..n |-> SearchCard(k, k # low)]

InitSearch ==
    /\ \E n \in 0..MaxCards : \E low \in {0, 2} : cards = CardDatabase(n, low)
    /\ known_combos \in KnownComboFiles
    /\ pc = "start"
    /\ combo_cards = <<>>
    /\ known_card_sets = {}
    /\ i = 1
    /\ discoveries = <<>>
    /\ calls = <<>>
    /\ failedAt = <<>>
    /\ saved = [written |-> FALSE, content |-> <<>>]
    /\ firstRun = [ran |-> FALSE, discoveries |-> <<>>, calls |-> <<>>]
    /\ potential_combos = <<>>
    /\ reasoning_examples = <<>>
    /\ card_examples = <<>>
    /\ all_training_data = <<>>
    /\ ToolsIdle
    /\ global_step = 0
    /\ cache_clears = 0
    /\ train_exit = "none"
    /\ save_log = <<>>
    /\ user_input = <<>>
    /\ printed = <<>>

InitDiscover ==
    /\ InitSearch
    /\ genDefault \in StubAnswers
    /\ deviated = FALSE
    /\ pairLimit = PairPrefix
    /\ tripleLimit = TriplePrefix

NextDiscover ==
    \/ StartSearch
    \/ SkipKnown
    \/ TestCandidate
    \/ GeneratorFails
    \/ Interrupt
    \/ PairsDone
    \/ TriplesDone
    \/ SaveDiscoveries

SpecDiscover ==
    InitDiscover /\ [][NextDiscover]_vars

(* Two runs over the same inputs with a generator that answers every call  *)
(* alike, the second with prefix bounds at least those of the first        *)

\* the search is run again with wider prefixes
Rerun ==
    /\ pc = "saved"
    /\ ~firstRun.ran
    /\ firstRun' = [ran |-> TRUE, discoveries |-> discoveries, calls |-> calls]
    /\ \E p \in pairLimit..(pairLimit + 1) : pairLimit' = p
    /\ \E t \in tripleLimit..(tripleLimit + 1) : tripleLimit' = t
    /\ pc' = "start"
    /\ i' = 1
    /\ discoveries' = <<>>
    /\ calls' = <<>>
    /\ UNCHANGED <<cards, known_combos, combo_cards, known_card_sets,
                   genDefault, deviated, failedAt, saved>>
    /\ UNCHANGED <<collectVars, extractVars, explorerVars, mtgVars>>
    /\ UNCHANGED sessionVars

InitWiden ==
    /\ InitSearch
    /\ genDefault \in Outcomes
    /\ deviated = TRUE
    /\ pairLimit \in (PairPrefix - 1)..PairPrefix
    /\ tripleLimit \in (TriplePrefix - 1)..TriplePrefix

NextWiden ==
    \/ NextDiscover
    \/ Rerun

SpecWiden ==
    InitWiden /\ [][NextWiden]_vars

-----------------------------------------------------------------------------
(* The cards and combos collect_combo_data.py is run on                     *)

\* the feature record extract_card_features gives for the card Bear
CardBear ==
    [name |-> <<"B","e","a","r">>,
     mana_cost |-> <<"{","1","}","{","G","}">>,
     type_line |-> <<"C","r","e","a","t","u","r","e">>,
     oracle_text |-> <<>>,
     abilities |-> Abilities({}),
     is_creature |-> TRUE]

\* the feature record extract_card_features gives for the card Wall
CardWall ==
    [name |-> <<"W","a","l","l">>,
     mana_cost |-> <<"{","4","}","{","U","}">>,
     type_line |-> <<"C","r","e","a","t","u","r","e">>,
     oracle_text |-> <<"E","n","t","e","r","s"," ","t","h","e"," ","b","a","t",
           "t","l","e","f","i","e","l","d"," ","t","a","p","p","e","d">>,
     abilities |-> Abilities({"enters_battlefield"}),
     is_creature |-> TRUE]

\* the feature record extract_card_features gives for the card Flicker
CardFlicker ==
    [name |-> <<"F","l","i","c","k","e","r">>,
     mana_cost |-> <<"{","2","}","{","U","}">>,
     type_line |-> <<"I","n","s","t","a","n","t">>,
     oracle_text |-> <<"E","x","i","l","e"," ","i","t",","," ","t","h","e","n",
           " ","r","e","t","u","r","n"," ","i","t">>,
     abilities |-> Abilities({"flicker"}),
     is_creature |-> FALSE]

\* the feature record extract_card_features gives for the card Wisp
CardWisp ==
    [name |-> <<"W","i","s","p">>,
     mana_cost |-> <<"{","1","}","{","W","}">>,
     type_line |-> <<"C","r","e","a","t","u","r","e">>,
     oracle_text |-> <<"E","n","t","e","r","s"," ","t","h","e"," ","b","a","t",
           "t","l","e","f","i","e","l","d",":"," ","e","x","i","l",
           "e",","," ","r","e","t","u","r","n">>,
     abilities |-> Abilities({"enters_battlefield", "flicker"}),
     is_creature |-> TRUE]

\* the feature record extract_card_features gives for the card Guard
CardGuard ==
    [name |-> <<"G","u","a","r","d">>,
     mana_cost |-> <<"{","2","}","{","W","}">>,
     type_line |-> <<"C","r","e","a","t","u","r","e">>,
     oracle_text |-> <<"{","T","}",":"," ","U","n","t","a","p"," ","i","t">>,
     abilities |-> Abilities({"untap", "tap_ability"}),
     is_creature |-> TRUE]

\* the feature record extract_card_features gives for the card Altar
CardAltar ==
    [name |-> <<"A","l","t","a","r">>,
     mana_cost |-> <<"{","3","}">>,
     type_line |-> <<"A","r","t","i","f","a","c","t">>,
     oracle_text |-> <<"C","r","e","a","t","e"," ","a"," ","t","o","k","e","n",
           "."," ","S","a","c","r","i","f","i","c","e"," ","i","t",
           ":"," ","d","r","a","w">>,
     abilities |-> Abilities({"draw", "sacrifice", "create_token"}),
     is_creature |-> FALSE]

\* the feature record extract_card_features gives for the card Sage, whose
\* oracle text has 109 characters
CardSage ==
    [name |-> <<"S","a","g","e">>,
     mana_cost |-> <<"{","2","}","{","U","}">>,
     type_line |-> <<"C","r","e","a","t","u","r","e">>,
     oracle_text |-> <<"W","h","e","n"," ","S","a","g","e"," ","e","n","t","e",
           "r","s"," ","t","h","e"," ","b","a","t","t","l","e","f",
           "i","e","l","d",","," ","d","r","a","w"," ","a"," ","c",
           "a","r","d",","," ","t","h","e","n"," ","p","u","t"," ",
           "a"," ","c","a","r","d"," ","f","r","o","m"," ","y","o",
           "u","r"," ","h","a","n","d"," ","o","n"," ","t","o","p",
           " ","o","f"," ","y","o","u","r"," ","l","i","b","r","a",
           "r","y","."," ","S","c","r","y"," ","2",".">>,
     abilities |-> Abilities({"enters_battlefield", "draw"}),
     is_creature |-> TRUE]

\* the keys of the abilities mapping in the order extract_card_features
\* inserts them (the order of card['abilities'].items())
AbilityOrder ==
    <<"enters_battlefield",
      "leaves_battlefield",
      "dies",
      "draw",
      "untap",
      "tap_ability",
      "sacrifice",
      "return_to_hand",
      "flicker",
      "create_token",
      "add_mana",
      "storm",
      "cost_reduction",
      "bounce",
      "copy_spell",
      "tutor",
      "recur">>

\* the keys of AbilityOrder as text
AbilityKeyText ==
    <<<<"e","n","t","e","r","s","_","b","a","t","t","l","e","f","i","e","l","d">>,
      <<"l","e","a","v","e","s","_","b","a","t","t","l","e","f","i","e","l","d">>,
      <<"d","i","e","s">>,
      <<"d","r","a","w">>,
      <<"u","n","t","a","p">>,
      <<"t","a","p","_","a","b","i","l","i","t","y">>,
      <<"s","a","c","r","i","f","i","c","e">>,
      <<"r","e","t","u","r","n","_","t","o","_","h","a","n","d">>,
      <<"f","l","i","c","k","e","r">>,
      <<"c","r","e","a","t","e","_","t","o","k","e","n">>,
      <<"a","d","d","_","m","a","n","a">>,
      <<"s","t","o","r","m">>,
      <<"c","o","s","t","_","r","e","d","u","c","t","i","o","n">>,
      <<"b","o","u","n","c","e">>,
      <<"c","o","p","y","_","s","p","e","l","l">>,
      <<"t","u","t","o","r">>,
      <<"r","e","c","u","r">>>>

-----------------------------------------------------------------------------
(* collect_combo_data.py: generate_potential_combos                        *)

\* longest feature list given to the collection pipeline
MaxCollectCards == 3

\* the 5 of flicker_effects[:5]
FlickerLimit == 5
\* the 20 of etb_creatures[:20]
EtbLimit == 20
\* the 5 of untap_effects[:5]
UntapLimit == 5
\* the 20 of tap_creatures[:20]
TapLimit == 20
\* the 10 of token_creators[:10]
TokenLimit == 10
\* the 10 of sacrifice_outlets[:10]
SacrificeLimit == 10
\* the 100 of etb['oracle_text'][:100]
ExcerptLength == 100
\* the 10 of combos[:10]
ComboPrefix == 10
\* the 100 of card_features[:100]
SampleSize == 100

\* the concatenation of the texts of the list `parts`
RECURSIVE Concat(_)
Concat(parts) ==
    IF parts = <<>> THEN <<>> ELSE Head(parts) \o Concat(Tail(parts))

\* sep.join(parts)
RECURSIVE Join(_, _)
Join(sep, parts) ==
    IF parts = <<>> THEN <<>>
    ELSE IF Len(parts) = 1 THEN parts[1]
    ELSE parts[1] \o sep \o Join(sep, Tail(parts))

\* the (outer, inner) index pairs of `for a in outer: for b in inner`, in
\* the order the loops visit them
LoopPairs(m, n) ==
    [k \in 1..(m * n) |-> <<((k - 1) \div n) + 1, ((k - 1) % n) + 1>>]

\* lines 270-275, 293-295, 311
etb_creatures(cs) ==
    SelectSeq(cs, LAMBDA c : c.abilities["enters_battlefield"] /\ c.is_creature)

\* the flicker-capable cards taken by the return_to_hand flag
flicker_effects_ByReturnToHand(cs) ==
    SelectSeq(cs, LAMBDA c : c.abilities["return_to_hand"])

flicker_effects(cs) ==
    SelectSeq(cs, LAMBDA c : c.abilities["flicker"])

untap_effects(cs) ==
    SelectSeq(cs, LAMBDA c : c.abilities["untap"])

token_creators(cs) ==
    SelectSeq(cs, LAMBDA c : c.abilities["create_token"])

tap_creatures(cs) ==
    SelectSeq(cs, LAMBDA c : c.abilities["tap_ability"] /\ c.is_creature)

sacrifice_outlets(cs) ==
    SelectSeq(cs, LAMBDA c : c.abilities["sacrifice"])

\* the self-pair test left out
DifferentNames_Always(a, b) ==
    TRUE

\* lines 280, 298, 314: the self-pair test
DifferentNames(a, b) ==
    a.name # b.name

\* the pairs of the two nested loops that pass the self-pair test
SurvivingPairs(outer, inner) ==
    SelectSeq(LoopPairs(Len(outer), Len(inner)),
              LAMBDA p : DifferentNames(outer[p[1]], inner[p[2]]))

\* lines 282-289
EtbFlickerCombo(flicker, etb) ==
    [cards |-> <<flicker.name, etb.name>>,
     synergy_type |-> PotentialText.EtbFlicker,
     description |->
         flicker.name \o PotentialText.CanRepeatedlyTrigger \o etb.name \o PotentialText.EtbAbility,
     card1_role |-> PotentialText.FlickerEffect,
     card2_role |-> PotentialText.EtbSource,
     analysis |->
         PotentialText.WhenYouFlicker \o etb.name \o PotentialText.With \o flicker.name
         \o PotentialText.RepeatedValue \o Take(etb.oracle_text, ExcerptLength)
         \o PotentialText.Ellipsis]

\* lines 300-307
UntapTapCombo(untapper, tapper) ==
    [cards |-> <<untapper.name, tapper.name>>,
     synergy_type |-> PotentialText.UntapTap,
     description |->
         untapper.name \o PotentialText.CanUntap \o tapper.name \o PotentialText.ToUseTap,
     card1_role |-> PotentialText.UntapSource,
     card2_role |-> PotentialText.TapAbility,
     analysis |-> PotentialText.ByUntapping \o tapper.name \o PotentialText.MoreThanOnce]

\* lines 316-323
TokenSacrificeCombo(token_maker, sac_outlet) ==
    [cards |-> <<token_maker.name, sac_outlet.name>>,
     synergy_type |-> PotentialText.TokenSacrifice,
     description |->
         token_maker.name \o PotentialText.CreatesTokensFor \o sac_outlet.name
         \o PotentialText.ToSacrifice,
     card1_role |-> PotentialText.TokenGenerator,
     card2_role |-> PotentialText.SacrificeOutlet,
     analysis |-> PotentialText.TokenValue]

\* lines 278-290
EtbFlickerCombos(cs) ==
    LET outer == Take(flicker_effects(cs), FlickerLimit)
        inner == Take(etb_creatures(cs), EtbLimit)
        kept == SurvivingPairs(outer, inner)
    IN  [k \in 1..Len(kept) |->
            EtbFlickerCombo(outer[kept[k][1]], inner[kept[k][2]])]

\* lines 296-308
UntapTapCombos(cs) ==
    LET outer == Take(untap_effects(cs), UntapLimit)
        inner == Take(tap_creatures(cs), TapLimit)
        kept == SurvivingPairs(outer, inner)
    IN  [k \in 1..Len(kept) |->
            UntapTapCombo(outer[kept[k][1]], inner[kept[k][2]])]

\* lines 312-324
TokenSacrificeCombos(cs) ==
    LET outer == Take(token_creators(cs), TokenLimit)
        inner == Take(sacrifice_outlets(cs), SacrificeLimit)
        kept == SurvivingPairs(outer, inner)
    IN  [k \in 1..Len(kept) |->
            TokenSacrificeCombo(outer[kept[k][1]], inner[kept[k][2]])]

generate_potential_combos(cs) ==
    EtbFlickerCombos(cs) \o UntapTapCombos(cs) \o TokenSacrificeCombos(cs)

-----------------------------------------------------------------------------
(* collect_combo_data.py: create_reasoning_examples                        *)

Example(instruction, input, output) ==
    [instruction |-> instruction, input |-> input, output |-> output]

\* the steps numbered from 0
NumberedSteps_FromZero(steps) ==
    [k \in 1..Len(steps) |-> DecStr(k - 1) \o ReasoningText.DotSpace \o steps[k]]

\* line 347: the steps, each prefixed by its 1-based number
NumberedSteps(steps) ==
    [k \in 1..Len(steps) |-> DecStr(k) \o ReasoningText.DotSpace \o steps[k]]

\* lines 339-351
ComboExplanation(combo) ==
    Example(ReasoningText.AnalyzeInfinite,
            ReasoningText.Cards \o Join(ReasoningText.CommaSpace, combo.cards),
            ReasoningText.YesInfinite
            \o ReasoningText.Description \o combo.description \o ReasoningText.BlankLine
            \o ReasoningText.Steps
            \o Join(ReasoningText.Newline, NumberedSteps(combo.steps))
            \o ReasoningText.Result \o combo.result \o ReasoningText.BlankLine
            \o ReasoningText.Requirements \o Join(ReasoningText.CommaSpace, combo.requirements))

\* line 338
IsInfiniteCombo(combo) ==
    combo.type = ReasoningText.Infinite

\* lines 337-352
ComboExplanations(combos) ==
    LET infinite == SelectSeq(combos, IsInfiniteCombo)
    IN  [k \in 1..Len(infinite) |-> ComboExplanation(infinite[k])]

\* line 355: name in card_dict
InCardDict(cs, name) ==
    \E k \in 1..Len(cs) : cs[k].name = name

\* line 355: card_dict.get(name); the last record of a name wins
CardDictGet(cs, name) ==
    cs[CHOOSE k \in 1..Len(cs) :
          /\ cs[k].name = name
          /\ \A j \in (k + 1)..Len(cs) : cs[j].name # name]

\* lines 357-359: the records of the combo's cards that are in card_dict
FoundCards(cs, combo) ==
    LET names == SelectSeq(combo.cards, LAMBDA n : InCardDict(cs, n))
    IN  [k \in 1..Len(names) |-> CardDictGet(cs, names[k])]

\* the example with the two cards in each other's place
InteractionExample_Swapped(card1, card2, combo) ==
    Example(ReasoningText.ExplainInteraction,
            ReasoningText.Card1 \o card2.name \o ReasoningText.Newline
            \o card2.oracle_text
            \o ReasoningText.Card2 \o card1.name \o ReasoningText.Newline
            \o card1.oracle_text,
            ReasoningText.Synergistic \o combo.description
            \o ReasoningText.BlankLine \o ReasoningText.KeyInteraction
            \o (IF combo.steps # <<>> THEN combo.steps[1]
                ELSE ReasoningText.EnableEachOther))

\* lines 361-368
InteractionExample(card1, card2, combo) ==
    Example(ReasoningText.ExplainInteraction,
            ReasoningText.Card1 \o card1.name \o ReasoningText.Newline \o card1.oracle_text
            \o ReasoningText.Card2 \o card2.name \o ReasoningText.Newline \o card2.oracle_text,
            ReasoningText.Synergistic \o combo.description \o ReasoningText.BlankLine
            \o ReasoningText.KeyInteraction
            \o (IF combo.steps # <<>> THEN combo.steps[1]
                ELSE ReasoningText.EnableEachOther))

\* lines 356-369
InteractionExamples(cs, combos) ==
    LET usable == SelectSeq(Take(combos, ComboPrefix),
                            LAMBDA combo : Len(FoundCards(cs, combo)) >= 2)
    IN  [k \in 1..Len(usable) |->
            InteractionExample(FoundCards(cs, usable[k])[1],
                               FoundCards(cs, usable[k])[2],
                               usable[k])]

\* lines 372-404: the three hand-written examples ("->" stands for the
\* arrow character of the source text)
FixedExamples ==
    <<Example(FixedText.Fixed1Instruction, FixedText.Fixed1Input, FixedText.Fixed1Output),
      Example(FixedText.Fixed2Instruction, FixedText.Fixed2Input, FixedText.Fixed2Output),
      Example(FixedText.Fixed3Instruction, FixedText.Fixed3Input, FixedText.Fixed3Output)>>

create_reasoning_examples(cs, combos) ==
    ComboExplanations(combos) \o InteractionExamples(cs, combos)
    \o FixedExamples

-----------------------------------------------------------------------------
(* collect_combo_data.py: the card-analysis loop of main                   *)

\* line 444: the keys of the true flags, in the order of the mapping
KeyAbilities(card) ==
    LET on == SelectSeq([k \in 1..Len(AbilityOrder) |-> k],
                        LAMBDA k : card.abilities[AbilityOrder[k]])
    IN  [k \in 1..Len(on) |-> AbilityKeyText[on[k]]]

\* the rating with the High threshold at 2 flags
ComboPotential_HighFromTwo(count) ==
    IF count >= 2 THEN AnalysisText.High
    ELSE IF count > 0 THEN AnalysisText.Medium
    ELSE AnalysisText.Low

\* lines 446-450
ComboPotential(count) ==
    IF count > 2 THEN AnalysisText.High
    ELSE IF count > 0 THEN AnalysisText.Medium
    ELSE AnalysisText.Low

\* lines 439-451
CardExample(card) ==
    Example(AnalysisText.AnalyzeCard,
            AnalysisText.Card \o card.name \o AnalysisText.ManaCost \o card.mana_cost
            \o AnalysisText.Type \o card.type_line \o AnalysisText.Text \o card.oracle_text,
            AnalysisText.CardAnalysis \o card.type_line \o ReasoningText.Newline
            \o AnalysisText.KeyAbilities \o Join(ReasoningText.CommaSpace, KeyAbilities(card))
            \o ReasoningText.BlankLine
            \o AnalysisText.ComboPotential \o ComboPotential(AbilityCount(card)))

\* lines 437-452
CardExamples(cs) ==
    LET sample == Take(cs, SampleSize)
    IN  [k \in 1..Len(sample) |-> CardExample(sample[k])]

-----------------------------------------------------------------------------
(* collect_combo_data.py: main, from line 427                              *)

\* line 429
GeneratePotential ==
    /\ pc = "collect"
    /\ potential_combos' = generate_potential_combos(cards)
    /\ pc' = "generated"
    /\ UNCHANGED <<cards, known_combos, reasoning_examples, card_examples,
                   all_training_data>>
    /\ UNCHANGED <<searchVars, extractVars, explorerVars, mtgVars>>
    /\ UNCHANGED sessionVars

\* line 434
CreateReasoning ==
    /\ pc = "generated"
    /\ reasoning_examples' = create_reasoning_examples(cards, known_combos)
    /\ pc' = "reasoned"
    /\ UNCHANGED <<cards, known_combos, potential_combos, card_examples,
                   all_training_data>>
    /\ UNCHANGED <<searchVars, extractVars, explorerVars, mtgVars>>
    /\ UNCHANGED sessionVars

\* lines 437-452
AnalyseCards ==
    /\ pc = "reasoned"
    /\ card_examples' = CardExamples(cards)
    /\ pc' = "analysed"
    /\ UNCHANGED <<cards, known_combos, potential_combos, reasoning_examples,
                   all_training_data>>
    /\ UNCHANGED <<searchVars, extractVars, explorerVars, mtgVars>>
    /\ UNCHANGED sessionVars

\* lines 455-459
SaveTrainingData ==
    /\ pc = "analysed"
    /\ all_training_data' = reasoning_examples \o card_examples
    /\ pc' = "collected"
    /\ UNCHANGED <<cards, known_combos, potential_combos, reasoning_examples,
                   card_examples>>
    /\ UNCHANGED <<searchVars, extractVars, explorerVars, mtgVars>>
    /\ UNCHANGED sessionVars

\* the feature records the pipeline is run on
FeaturePool ==
    {CardBear, CardWall, CardFlicker, CardWisp, CardGuard, CardAltar}

\* the lists of at most MaxCollectCards records of the pool, and two lists
\* with the card of the long oracle text
FeatureLists ==
    UNION {[1..n -> FeaturePool] : n \in 0..MaxCollectCards}
    \cup {<<CardSage, CardFlicker>>, <<CardFlicker, CardSage>>}

\* a known combo of the given cards, type and steps, with two requirements
CollectCombo(names, type, steps) ==
    [cards |-> names,
     description |-> <<"m","a","n","a">>,
     steps |-> steps,
     requirements |-> << <<"l","a","n","d">>, <<"b","l","u","e">> >>,
     result |-> <<"w","i","n">>,
     type |-> type]

\* a list of one combo more than combos[:10] takes: ten combos of Flicker
\* and Wall, then one of Guard and Altar
LongComboList ==
    [k \in 1..(ComboPrefix + 1) |->
        IF k <= ComboPrefix
        THEN CollectCombo(<<CardFlicker.name, CardWall.name>>,
                          SampleText.Value, <<SampleText.Cast>>)
        ELSE CollectCombo(<<CardGuard.name, CardAltar.name>>,
                          SampleText.Value, <<SampleText.Repeat>>)]

\* the known-combo lists the pipeline is run on
CollectComboLists ==
    { <<>>,
      << CollectCombo(<<CardFlicker.name, CardWall.name>>, ReasoningText.Infinite,
                      <<SampleText.Cast, SampleText.Exile, SampleText.Repeat>>) >>,
      << CollectCombo(<<CardGuard.name, CardAltar.name>>, SampleText.Value,
                      <<SampleText.Cast>>) >>,
      << CollectCombo(<<CardBear.name, CardFlicker.name, CardWisp.name>>,
                      ReasoningText.Infinite, <<SampleText.Exile, SampleText.Cast>>),
         CollectCombo(<<CardGuard.name, CardAltar.name>>, SampleText.InfiniteCapital,
                      <<SampleText.Repeat>>),
         CollectCombo(<<CardAltar.name, CardGuard.name>>, ReasoningText.Infinite,
                      <<>>) >>,
      LongComboList }

InitCollect ==
    /\ cards \in FeatureLists
    /\ known_combos \in CollectComboLists
    /\ pc = "collect"
    /\ potential_combos = <<>>
    /\ reasoning_examples = <<>>
    /\ card_examples = <<>>
    /\ all_training_data = <<>>
    /\ combo_cards = <<>>
    /\ known_card_sets = {}
    /\ i = 1
    /\ discoveries = <<>>
    /\ calls = <<>>
    /\ genDefault = GeneratorError
    /\ deviated = FALSE
    /\ failedAt = <<>>
    /\ saved = [written |-> FALSE, content |-> <<>>]
    /\ pairLimit = PairPrefix
    /\ tripleLimit = TriplePrefix
    /\ firstRun = [ran |-> FALSE, discoveries |-> <<>>, calls |-> <<>>]
    /\ ToolsIdle
    /\ global_step = 0
    /\ cache_clears = 0
    /\ train_exit = "none"
    /\ save_log = <<>>
    /\ user_input = <<>>
    /\ printed = <<>>

NextCollect ==
    \/ GeneratePotential
    \/ CreateReasoning
    \/ AnalyseCards
    \/ SaveTrainingData

SpecCollect ==
    InitCollect /\ [][NextCollect]_vars

-----------------------------------------------------------------------------
(* collect_combo_data.py: extract_card_features                            *)

\* The string literals of extract_card_features.
ExtractText ==
    [
     enters_the_battlefield |->
         <<"e","n","t","e","r","s"," ","t","h","e"," ","b","a","t","t",
           "l","e","f","i","e","l","d">>,
     enter_the_battlefield |->
         <<"e","n","t","e","r"," ","t","h","e"," ","b","a","t","t","l",
           "e","f","i","e","l","d">>,
     leaves_the_battlefield |->
         <<"l","e","a","v","e","s"," ","t","h","e"," ","b","a","t","t",
           "l","e","f","i","e","l","d">>,
     leave_the_battlefield |->
         <<"l","e","a","v","e"," ","t","h","e"," ","b","a","t","t","l",
           "e","f","i","e","l","d">>,
     dies |->
         <<"d","i","e","s">>,
     when_prefix |->
         <<"w","h","e","n"," ">>,
     dies_suffix |->
         <<" ","d","i","e","s">>,
     draw |->
         <<"d","r","a","w">>,
     untap |->
         <<"u","n","t","a","p">>,
     tap_symbol |->
         <<"{","T","}",":">>,
     tap_word |->
         <<"t","a","p",":">>,
     sacrifice |->
         <<"s","a","c","r","i","f","i","c","e">>,
     return_ |->
         <<"r","e","t","u","r","n">>,
     hand |->
         <<"h","a","n","d">>,
     exile |->
         <<"e","x","i","l","e">>,
     create |->
         <<"c","r","e","a","t","e">>,
     token |->
         <<"t","o","k","e","n">>,
     add_brace |->
         <<"a","d","d"," ","{">>,
     add_one_mana |->
         <<"a","d","d"," ","o","n","e"," ","m","a","n","a">>,
     storm |->
         <<"s","t","o","r","m">>,
     cost |->
         <<"c","o","s","t">>,
     less |->
         <<"l","e","s","s">>,
     reduced |->
         <<"r","e","d","u","c","e","d">>,
     owners_hand |->
         <<"o","w","n","e","r","'","s"," ","h","a","n","d">>,
     its_owners_hand |->
         <<"i","t","s"," ","o","w","n","e","r","'","s"," ","h","a","n","d">>,
     copy |->
         <<"c","o","p","y">>,
     spell |->
         <<"s","p","e","l","l">>,
     instant |->
         <<"i","n","s","t","a","n","t">>,
     sorcery |->
         <<"s","o","r","c","e","r","y">>,
     search_your_library |->
         <<"s","e","a","r","c","h"," ","y","o","u","r"," ","l","i","b",
           "r","a","r","y">>,
     from_your_graveyard |->
         <<"f","r","o","m"," ","y","o","u","r"," ","g","r","a","v","e",
           "y","a","r","d">>,
     to |->
         <<"t","o">>,
     graveyard |->
         <<"g","r","a","v","e","y","a","r","d">>,
     Creature |->
         <<"C","r","e","a","t","u","r","e">>,
     Instant |->
         <<"I","n","s","t","a","n","t">>,
     Sorcery |->
         <<"S","o","r","c","e","r","y">>,
     Artifact |->
         <<"A","r","t","i","f","a","c","t">>,
     Enchantment |->
         <<"E","n","c","h","a","n","t","m","e","n","t">>,
     Land |->
         <<"L","a","n","d">>
    ]

\* Texts of the raw card records the extractor is run on; draw_a_card
\* is the text whose addition to an oracle text is examined.
RawText ==
    [
     Guard |->
         <<"g","u","a","r","d">>,
     Wall |->
         <<"W","a","l","l">>,
     Cost |->
         <<"{","1","}","{","G","}">>,
     TypeCreature |->
         <<"C","r","e","a","t","u","r","e"," ","-"," ","H","u","m","a","n">>,
     TypeArtifactCreature |->
         <<"A","r","t","i","f","a","c","t"," ","C","r","e","a","t","u",
           "r","e"," ","-"," ","G","o","l","e","m">>,
     TypeInstant |->
         <<"I","n","s","t","a","n","t">>,
     TypeLand |->
         <<"B","a","s","i","c"," ","L","a","n","d">>,
     TapUpper |->
         <<"{","T","}",":"," ","A","d","d"," ","{","G","}",".">>,
     TapLower |->
         <<"{","t","}",":"," ","a","d","d"," ","{","g","}",".">>,
     DrawUpper |->
         <<"D","R","A","W"," ","A"," ","C","A","R","D",".">>,
     DrawLower |->
         <<"d","r","a","w"," ","a"," ","c","a","r","d",".">>,
     WhenDies |->
         <<"W","h","e","n"," ","g","u","a","r","d"," ","d","i","e","s",
           ","," ","s","e","a","r","c","h"," ","y","o","u","r"," ","l",
           "i","b","r","a","r","y",".">>,
     SacUntap |->
         <<"S","a","c","r","i","f","i","c","e"," ","a"," ","c","r","e",
           "a","t","u","r","e",":"," ","U","n","t","a","p"," ","t","a",
           "r","g","e","t"," ","l","a","n","d",".">>,
     Recall |->
         <<"E","x","i","l","e"," ","i","t",","," ","t","h","e","n"," ",
           "r","e","t","u","r","n"," ","i","t"," ","f","r","o","m"," ",
           "y","o","u","r"," ","g","r","a","v","e","y","a","r","d"," ",
           "t","o"," ","i","t","s"," ","o","w","n","e","r","'","s"," ",
           "h","a","n","d",".">>,
     Storm |->
         <<"S","t","o","r","m","."," ","C","o","p","y"," ","t","a","r",
           "g","e","t"," ","s","p","e","l","l","."," ","I","t"," ","c",
           "o","s","t","s"," ","{","1","}"," ","l","e","s","s","."," ",
           "C","r","e","a","t","e"," ","a"," ","t","o","k","e","n",".">>,
     draw_a_card |->
         <<"d","r","a","w"," ","a"," ","c","a","r","d">>,
     Unsummon |->
         <<"R","e","t","u","r","n"," ","t","a","r","g","e","t"," ","c",
           "r","e","a","t","u","r","e"," ","t","o"," ","i","t","s"," ",
           "o","w","n","e","r","'","s"," ","h","a","n","d",".">>,
     PutInHand |->
         <<"P","u","t"," ","t","a","r","g","e","t"," ","c","a","r","d",
           " ","i","n","t","o"," ","i","t","s"," ","o","w","n","e","r",
           "'","s"," ","h","a","n","d",".">>,
     Blue |->
         <<"U">>,
     Flying |->
         <<"F","l","y","i","n","g">>,
     Two |->
         <<"2">>
    ]

\* Python's None. A text is a sequence of one-character strings, so this
\* one-element sequence differs from every text.
None ==
    <<"None">>

\* dict.get(key, default)
Get(card, key, default) ==
    IF key \in DOMAIN card THEN card[key] ELSE default

\* dict.get(key) with no default: None when the key is absent
GetText_NoDefault(card, key) ==
    IF key \in DOMAIN card THEN card[key] ELSE None

\* dict.get(key, "") of a text field
GetText(card, key) ==
    Get(card, key, <<>>)

\* line 58-60: the "dies" flag; lowered is oracle_text.lower()
dies_flag_ByNameOnly(name, lowered) ==
    Contains(ExtractText.when_prefix \o name \o ExtractText.dies_suffix,
             lowered)

dies_flag(name, lowered) ==
    \/ Contains(ExtractText.dies, lowered)
    \/ Contains(ExtractText.when_prefix \o name \o ExtractText.dies_suffix,
                lowered)

\* line 61: the "draw" flag
draw_flag_Draws(lowered) ==
    Contains(ExtractText.draw \o <<"s">>, lowered)

draw_flag(lowered) ==
    Contains(ExtractText.draw, lowered)

\* line 63: the "tap_ability" flag; "{T}:" is looked for in the oracle
\* text as it is, "tap:" in the lowered text
tap_ability_flag(oracle_text) ==
    \/ Contains(ExtractText.tap_symbol, oracle_text)
    \/ Contains(ExtractText.tap_word, Lower(oracle_text))

\* the bounce flag with no test for "return"
bounce_flag_OwnersHandOnly(lowered) ==
    \/ Contains(ExtractText.owners_hand, lowered)
    \/ Contains(ExtractText.its_owners_hand, lowered)

\* lines 75-79: "return" in the lowered text and ("owner's hand" in it or
\* "its owner's hand" in it)
bounce_flag(lowered) ==
    /\ Contains(ExtractText.return_, lowered)
    /\ \/ Contains(ExtractText.owners_hand, lowered)
       \/ Contains(ExtractText.its_owners_hand, lowered)

\* lines 53-94: the "abilities" mapping of a raw card
ability_flags(card) ==
    LET oracle_text == GetText(card, "oracle_text")
        low == Lower(oracle_text)
        has(kw) == Contains(kw, low)
        T == ExtractText
    IN  [enters_battlefield |->
             has(T.enters_the_battlefield) \/ has(T.enter_the_battlefield),
         leaves_battlefield |->
             has(T.leaves_the_battlefield) \/ has(T.leave_the_battlefield),
         dies |-> dies_flag(GetText(card, "name"), low),
         draw |-> draw_flag(low),
         untap |-> has(T.untap),
         tap_ability |-> tap_ability_flag(oracle_text),
         sacrifice |-> has(T.sacrifice),
         return_to_hand |-> has(T.return_) /\ has(T.hand),
         flicker |-> has(T.exile) /\ has(T.return_),
         create_token |-> has(T.create) /\ has(T.token),
         add_mana |-> has(T.add_brace) \/ has(T.add_one_mana),
         storm |-> has(T.storm),
         cost_reduction |-> has(T.cost) /\ (has(T.less) \/ has(T.reduced)),
         bounce |-> bounce_flag(low),
         copy_spell |->
             has(T.copy) /\ (has(T.spell) \/ has(T.instant) \/ has(T.sorcery)),
         tutor |-> has(T.search_your_library),
         recur |->
             \/ has(T.from_your_graveyard) /\ has(T.to)
             \/ has(T.return_) /\ has(T.graveyard)]

\* lines 41-102: the feature record of a raw card
extract_card_features(card) ==
    LET type_line == GetText(card, "type_line")
    IN  [name |-> Get(card, "name", None),
         mana_cost |-> GetText(card, "mana_cost"),
         cmc |-> Get(card, "cmc", 0),
         type_line |-> type_line,
         oracle_text |-> GetText(card, "oracle_text"),
         colors |-> Get(card, "colors", <<>>),
         color_identity |-> Get(card, "color_identity", <<>>),
         keywords |-> Get(card, "keywords", <<>>),
         power |-> Get(card, "power", None),
         toughness |-> Get(card, "toughness", None),
         abilities |-> ability_flags(card),
         is_creature |-> Contains(ExtractText.Creature, type_line),
         is_instant |-> Contains(ExtractText.Instant, type_line),
         is_sorcery |-> Contains(ExtractText.Sorcery, type_line),
         is_artifact |-> Contains(ExtractText.Artifact, type_line),
         is_enchantment |-> Contains(ExtractText.Enchantment, type_line),
         is_land |-> Contains(ExtractText.Land, type_line)]

\* longest list of raw cards whose features are compared
MaxRawCards == 2

\* the keys of a raw card record other than "name"
OptionalKeys ==
    {"mana_cost", "cmc", "type_line", "oracle_text", "colors",
     "color_identity", "keywords", "power", "toughness"}

\* a raw card record of the card service holding every key
RawCard(name, type_line, oracle_text) ==
    [name |-> name,
     mana_cost |-> RawText.Cost,
     cmc |-> 2,
     type_line |-> type_line,
     oracle_text |-> oracle_text,
     colors |-> <<RawText.Blue>>,
     color_identity |-> <<RawText.Blue>>,
     keywords |-> <<RawText.Flying>>,
     power |-> RawText.Two,
     toughness |-> RawText.Two]

\* the record `card` without the keys `absent`
Without(card, absent) ==
    [k \in (DOMAIN card) \ absent |-> card[k]]

\* an oracle text with the text "draw a card" added as a further sentence
WithDrawACard(oracle_text) ==
    IF oracle_text = <<>> THEN RawText.draw_a_card
    ELSE oracle_text \o <<" ">> \o RawText.draw_a_card

\* the oracle texts of the raw cards
OracleTexts ==
    LET base == {<<>>, RawText.TapUpper, RawText.TapLower, RawText.SacUntap,
                 RawText.Recall, RawText.Storm, RawText.WhenDies}
    IN  base \cup {WithDrawACard(t) : t \in base}
             \cup {RawText.DrawUpper, RawText.DrawLower, RawText.Unsummon,
                   RawText.PutInHand}

\* the raw cards: one card with any of its optional keys absent, cards
\* that differ in their oracle text only, and cards that differ in name
\* and type line
RawCards ==
    {Without(RawCard(RawText.Guard, RawText.TypeCreature, RawText.WhenDies),
             absent) : absent \in SUBSET OptionalKeys}
    \cup {RawCard(RawText.Guard, RawText.TypeCreature, t) : t \in OracleTexts}
    \cup {RawCard(n, ty, t) :
              n \in {RawText.Guard, RawText.Wall},
              ty \in {RawText.TypeArtifactCreature, RawText.TypeInstant,
                      RawText.TypeLand},
              t \in {RawText.WhenDies, RawText.Storm}}

\* the cards whose extraction is compared with each other
ComparedCards ==
    {c \in RawCards : DOMAIN c = {"name"} \cup OptionalKeys}

\* line 419: one element of [extract_card_features(c) for c in cards]
ExtractFeatures ==
    /\ pc = "extract"
    /\ Len(card_features) < Len(raw_cards)
    /\ card_features' = Append(card_features,
           extract_card_features(raw_cards[Len(card_features) + 1]))
    /\ UNCHANGED <<cards, known_combos, pc, raw_cards>>
    /\ UNCHANGED <<searchVars, collectVars, explorerVars, mtgVars>>
    /\ UNCHANGED sessionVars

\* lines 419-423: the list is complete and becomes the card database
FeaturesExtracted ==
    /\ pc = "extract"
    /\ Len(card_features) = Len(raw_cards)
    /\ pc' = "extracted"
    /\ cards' = card_features
    /\ UNCHANGED <<known_combos, raw_cards, card_features>>
    /\ UNCHANGED <<searchVars, collectVars, explorerVars, mtgVars>>
    /\ UNCHANGED sessionVars

\* every variable of the other components at rest
OthersIdle ==
    /\ known_combos = <<>>
    /\ combo_cards = <<>>
    /\ known_card_sets = {}
    /\ i = 1
    /\ discoveries = <<>>
    /\ calls = <<>>
    /\ genDefault = GeneratorError
    /\ deviated = FALSE
    /\ failedAt = <<>>
    /\ saved = [written |-> FALSE, content |-> <<>>]
    /\ pairLimit = PairPrefix
    /\ tripleLimit = TriplePrefix
    /\ firstRun = [ran |-> FALSE, discoveries |-> <<>>, calls |-> <<>>]
    /\ potential_combos = <<>>
    /\ reasoning_examples = <<>>
    /\ card_examples = <<>>
    /\ all_training_data = <<>>

InitExtract ==
    /\ \/ \E c \in RawCards : raw_cards = <<c>>
       \/ \E n \in 0..MaxRawCards :
              raw_cards \in [1..n -> ComparedCards]
    /\ card_features = <<>>
    /\ cards = <<>>
    /\ pc = "extract"
    /\ OthersIdle
    /\ card_names = <<>>
    /\ cards_found = <<>>
    /\ warnings = <<>>
    /\ prompts = <<>>
    /\ result = <<>>
    /\ processed_cards = <<>>
    /\ training_examples = <<>>
    /\ global_step = 0
    /\ cache_clears = 0
    /\ train_exit = "none"
    /\ save_log = <<>>
    /\ user_input = <<>>
    /\ printed = <<>>

NextExtract ==
    \/ ExtractFeatures
    \/ FeaturesExtracted

SpecExtract ==
    InitExtract /\ [][NextExtract]_vars

-----------------------------------------------------------------------------
(* combo_explorer.py: ComboExplorer.find_card and analyze_combo            *)

\* The string literals of analyze_combo (TooFew to Instruction), the card
\* names asked for in the model (bear to Bolt), the string literals of
\* suggest_combo_pieces and interactive_mode (Quit to ErrorPrefix) and
\* the lines typed at the prompt in the model (LineQuit to LineComboBare).
ExplorerText ==
    [
     TooFew |->
         <<"N","e","e","d"," ","a","t"," ","l","e","a","s","t"," ","2",
           " ","v","a","l","i","d"," ","P","a","u","p","e","r"," ","c",
           "a","r","d","s"," ","t","o"," ","a","n","a","l","y","z","e">>,
     OpenParen |->
         <<" ","(">>,
     CloseParenType |->
         <<")","\n","T","y","p","e",":"," ">>,
     Text |->
         <<"\n","T","e","x","t",":"," ">>,
     Cards |->
         <<"C","a","r","d","s",":","\n","\n">>,
     BlankLine |->
         <<"\n","\n">>,
     Instruction |->
         <<"A","n","a","l","y","z","e"," ","i","f"," ","t","h","e","s",
           "e"," ","c","a","r","d","s"," ","c","r","e","a","t","e"," ",
           "a","n"," ","i","n","f","i","n","i","t","e"," ","c","o","m",
           "b","o"," ","o","r"," ","p","o","w","e","r","f","u","l"," ",
           "s","y","n","e","r","g","y"," ","i","n"," ","P","a","u","p",
           "e","r"," ","f","o","r","m","a","t","."," ","E","x","p","l",
           "a","i","n"," ","s","t","e","p","-","b","y","-","s","t","e",
           "p",".">>,
     bear |->
         <<"b","e","a","r">>,
     WALL |->
         <<"W","A","L","L">>,
     Flicker |->
         <<"F","l","i","c","k","e","r">>,
     Ghost |->
         <<"G","h","o","s","t">>,
     Bolt |->
         <<"B","o","l","t">>,
     Quit |->
         <<"q","u","i","t">>,
     Exit |->
         <<"e","x","i","t">>,
     Q |->
         <<"q">>,
     ComboWord |->
         <<"c","o","m","b","o"," ">>,
     SuggestWord |->
         <<"s","u","g","g","e","s","t"," ">>,
     Analyzing |->
         <<"\n","A","n","a","l","y","z","i","n","g",":"," ">>,
     Plus |->
         <<" ","+"," ">>,
     Newline |->
         <<"\n">>,
     Finding |->
         <<"\n","F","i","n","d","i","n","g"," ","c","o","m","b","o","s",
           " ","f","o","r",":"," ">>,
     SuggestInstruction |->
         <<"W","h","a","t"," ","c","a","r","d","s"," ","w","o","u","l",
           "d"," ","c","o","m","b","o"," ","w","e","l","l"," ","w","i",
           "t","h"," ","t","h","i","s"," ","c","a","r","d"," ","i","n",
           " ","P","a","u","p","e","r"," ","f","o","r","m","a","t","?">>,
     NotFoundPrefix |->
         <<"C","a","r","d"," ","'">>,
     NotFoundSuffix |->
         <<"'"," ","n","o","t"," ","f","o","u","n","d"," ","i","n"," ",
           "P","a","u","p","e","r"," ","f","o","r","m","a","t">>,
     Unknown |->
         <<"U","n","k","n","o","w","n"," ","c","o","m","m","a","n","d",
           "."," ","U","s","e"," ","'","c","o","m","b","o"," ","<","c",
           "a","r","d","s",">","'"," ","o","r"," ","'","s","u","g","g",
           "e","s","t"," ","<","c","a","r","d",">","'">>,
     Goodbye |->
         <<"G","o","o","d","b","y","e","!">>,
     InterruptGoodbye |->
         <<"\n","\n","G","o","o","d","b","y","e","!">>,
     ErrorPrefix |->
         <<"E","r","r","o","r",":"," ">>,
     LineQuit |->
         <<"q","u","i","t">>,
     LineExit |->
         <<" ","E","X","I","T"," ">>,
     LineQ |->
         <<"Q">>,
     LineCombo |->
         <<"c","o","m","b","o"," ","b","e","a","r",","," ","W","A","L","L">>,
     LineComboUpper |->
         <<"C","O","M","B","O"," ","G","h","o","s","t"," ",","," ","b",
           "e","a","r">>,
     LineSuggest |->
         <<"s","u","g","g","e","s","t"," ","F","l","i","c","k","e","r">>,
     LineSuggestGhost |->
         <<"S","u","g","g","e","s","t"," ","g","h","o","s","t">>,
     LineHelp |->
         <<"h","e","l","p">>,
     LineComboBare |->
         <<"c","o","m","b","o"," ">>
    ]


\* most names given to analyze_combo in one request
MaxNames == 3

\* most commands read by interactive_mode in one session
MaxCommands == 2

\* lines 47-51: the position in self.cards of the first card whose name
\* equals `name` when both are lower-cased; 0 stands for the None returned
\* when there is none
find_card(cs, name) ==
    IF \E k \in 1..Len(cs) : Lower(cs[k].name) = Lower(name)
    THEN CHOOSE k \in 1..Len(cs) :
             /\ Lower(cs[k].name) = Lower(name)
             /\ \A j \in 1..(k - 1) : Lower(cs[j].name) # Lower(name)
    ELSE 0

\* line 62 with the threshold 1 instead of 2
TooFewCards_BelowOne(found) ==
    Len(found) < 1

\* line 62: len(cards_found) < 2
TooFewCards(found) ==
    Len(found) < 2

\* lines 67-71: the description of one card
CardDescription(card) ==
    Concat(<<card.name, ExplorerText.OpenParen, card.mana_cost,
             ExplorerText.CloseParenType, card.type_line,
             ExplorerText.Text, card.oracle_text>>)

\* lines 65-74: the instruction and the input text given to generate
ComboPrompt(found) ==
    [instruction |-> ExplorerText.Instruction,
     input_text |->
         ExplorerText.Cards
         \o Join(ExplorerText.BlankLine,
                 [k \in 1..Len(found) |-> CardDescription(found[k])])]

\* lines 55-60: one turn of the loop over card_names
LookUpName ==
    /\ pc = "analyze"
    /\ i <= Len(card_names)
    /\ LET card == find_card(cards, card_names[i])
       IN  IF card # 0
           THEN /\ cards_found' = Append(cards_found, cards[card])
                /\ warnings' = warnings
           ELSE /\ warnings' = Append(warnings, card_names[i])
                /\ cards_found' = cards_found
    /\ i' = i + 1
    /\ UNCHANGED <<cards, known_combos, pc, card_names, prompts, result>>
    /\ UNCHANGED <<combo_cards, known_card_sets, discoveries, calls,
                   genDefault, deviated, failedAt, saved, pairLimit,
                   tripleLimit, firstRun>>
    /\ UNCHANGED <<collectVars, extractVars, mtgVars>>
    /\ UNCHANGED sessionVars

\* lines 62-63: fewer than two cards were found
ReturnTooFew ==
    /\ pc = "analyze"
    /\ i > Len(card_names)
    /\ TooFewCards(cards_found)
    /\ result' = ExplorerText.TooFew
    /\ pc' = "analyzed"
    /\ UNCHANGED <<cards, known_combos, card_names, cards_found, warnings,
                   prompts>>
    /\ UNCHANGED <<searchVars, collectVars, extractVars, mtgVars>>
    /\ UNCHANGED sessionVars

\* lines 65-76: the generator is asked about the cards found and answers
AnalyzeFound ==
    /\ pc = "analyze"
    /\ i > Len(card_names)
    /\ ~TooFewCards(cards_found)
    /\ \E o \in Outcomes :
          /\ o.ok
          /\ generate_response(o)
          /\ result' = o.text
    /\ prompts' = Append(prompts, ComboPrompt(cards_found))
    /\ pc' = "analyzed"
    /\ UNCHANGED <<cards, known_combos, card_names, cards_found, warnings>>
    /\ UNCHANGED <<combo_cards, known_card_sets, i, discoveries, calls,
                   genDefault, failedAt, saved, pairLimit, tripleLimit,
                   firstRun>>
    /\ UNCHANGED <<collectVars, extractVars, mtgVars>>
    /\ UNCHANGED sessionVars

\* lines 65-76: the generator raises; analyze_combo does not catch it
AnalyzeRaises ==
    /\ pc = "analyze"
    /\ i > Len(card_names)
    /\ ~TooFewCards(cards_found)
    /\ generate_response(GeneratorError)
    /\ prompts' = Append(prompts, ComboPrompt(cards_found))
    /\ pc' = "raised"
    /\ UNCHANGED <<cards, known_combos, card_names, cards_found, warnings,
                   result>>
    /\ UNCHANGED <<combo_cards, known_card_sets, i, discoveries, calls,
                   genDefault, failedAt, saved, pairLimit, tripleLimit,
                   firstRun>>
    /\ UNCHANGED <<collectVars, extractVars, mtgVars>>
    /\ UNCHANGED sessionVars

\* the names a request may hold: three of cards of the database, in
\* another case, and two of no card
RequestedNames ==
    {ExplorerText.bear, ExplorerText.WALL, ExplorerText.Flicker,
     ExplorerText.Ghost, ExplorerText.Bolt}

\* the card databases the explorer is loaded with
ExplorerDatabases ==
    {<<>>, <<CardWall>>, <<CardBear, CardWall, CardFlicker>>,
     <<CardFlicker, CardBear, CardWall, CardBear>>}

InitExplore ==
    /\ cards \in ExplorerDatabases
    /\ \E n \in 0..MaxNames : card_names \in [1..n -> RequestedNames]
    /\ pc = "analyze"
    /\ cards_found = <<>>
    /\ warnings = <<>>
    /\ prompts = <<>>
    /\ result = <<>>
    /\ known_combos = <<>>
    /\ combo_cards = <<>>
    /\ known_card_sets = {}
    /\ i = 1
    /\ discoveries = <<>>
    /\ calls = <<>>
    /\ genDefault \in StubAnswers \cup {GeneratorError}
    /\ deviated = FALSE
    /\ failedAt = <<>>
    /\ saved = [written |-> FALSE, content |-> <<>>]
    /\ pairLimit = PairPrefix
    /\ tripleLimit = TriplePrefix
    /\ firstRun = [ran |-> FALSE, discoveries |-> <<>>, calls |-> <<>>]
    /\ potential_combos = <<>>
    /\ reasoning_examples = <<>>
    /\ card_examples = <<>>
    /\ all_training_data = <<>>
    /\ raw_cards = <<>>
    /\ card_features = <<>>
    /\ processed_cards = <<>>
    /\ training_examples = <<>>
    /\ global_step = 0
    /\ cache_clears = 0
    /\ train_exit = "none"
    /\ save_log = <<>>
    /\ user_input = <<>>
    /\ printed = <<>>

NextExplore ==
    \/ LookUpName
    \/ ReturnTooFew
    \/ AnalyzeFound
    \/ AnalyzeRaises

SpecExplore ==
    InitExplore /\ [][NextExplore]_vars

-----------------------------------------------------------------------------
(* collect_mtg_data.py: process_card_data and create_training_examples     *)

\* The string literals of collect_mtg_data.create_training_examples;
\* NoneText is what an f-string makes of None.
MtgText ==
    [
     AnalyzeCard |->
         <<"A","n","a","l","y","z","e"," ","t","h","i","s"," ","P","a",
           "u","p","e","r"," ","c","a","r","d",":","\n","N","a","m","e",
           ":"," ">>,
     ManaCost |->
         <<"\n","M","a","n","a"," ","C","o","s","t",":"," ">>,
     Type |->
         <<"\n","T","y","p","e",":"," ">>,
     Text |->
         <<"\n","T","e","x","t",":"," ">>,
     ThisIsA |->
         <<"T","h","i","s"," ","i","s"," ","a"," ">>,
     ThatCosts |->
         <<" ","t","h","a","t"," ","c","o","s","t","s"," ">>,
     Stop |->
         <<"."," ">>,
     Creature |->
         <<"C","r","e","a","t","u","r","e">>,
     CreatureWith |->
         <<"I","t","'","s"," ","a"," ","c","r","e","a","t","u","r","e",
           " ","w","i","t","h"," ">>,
     Slash |->
         <<"/">>,
     Stats |->
         <<" ","s","t","a","t","s","."," ">>,
     Abilities |->
         <<"I","t"," ","h","a","s"," ","t","h","e"," ","f","o","l","l",
           "o","w","i","n","g"," ","a","b","i","l","i","t","i","e","s",
           ":"," ">>,
     Comma |->
         <<","," ">>,
     AnalyzeInstruction |->
         <<"A","n","a","l","y","z","e"," ","t","h","i","s"," ","M","a",
           "g","i","c",":"," ","T","h","e"," ","G","a","t","h","e","r",
           "i","n","g"," ","P","a","u","p","e","r"," ","f","o","r","m",
           "a","t"," ","c","a","r","d",".">>,
     SuggestInstruction |->
         <<"S","u","g","g","e","s","t"," ","c","a","r","d","s"," ","f",
           "o","r"," ","a"," ","P","a","u","p","e","r"," ","d","e","c",
           "k"," ","a","r","c","h","e","t","y","p","e",".">>,
     WantToBuild |->
         <<"I"," ","w","a","n","t"," ","t","o"," ","b","u","i","l","d",
           " ","a"," ">>,
     DeckQuestion |->
         <<" ","d","e","c","k"," ","i","n"," ","P","a","u","p","e","r",
           "."," ","W","h","a","t"," ","c","a","r","d","s"," ","s","h",
           "o","u","l","d"," ","I"," ","c","o","n","s","i","d","e","r","?">>,
     ForA |->
         <<"F","o","r"," ","a"," ">>,
     Consider |->
         <<" ","d","e","c","k",","," ","c","o","n","s","i","d","e","r",
           " ","t","h","e","s","e"," ","P","a","u","p","e","r","-","l",
           "e","g","a","l"," ","c","a","r","d","s",":"," ">>,
     Synergize |->
         <<"."," ","T","h","e","s","e"," ","c","a","r","d","s"," ","s",
           "y","n","e","r","g","i","z","e"," ","w","e","l","l"," ","w",
           "i","t","h"," ","t","h","e"," ">>,
     Strategy |->
         <<" ","s","t","r","a","t","e","g","y",".">>,
     BlueControl |->
         <<"b","l","u","e"," ","c","o","n","t","r","o","l">>,
     RedAggro |->
         <<"r","e","d"," ","a","g","g","r","o">>,
     BlackSacrifice |->
         <<"b","l","a","c","k"," ","s","a","c","r","i","f","i","c","e">>,
     WhiteWeenie |->
         <<"w","h","i","t","e"," ","w","e","e","n","i","e">>,
     GreenRamp |->
         <<"g","r","e","e","n"," ","r","a","m","p">>,
     DimirControl |->
         <<"D","i","m","i","r"," ","c","o","n","t","r","o","l">>,
     GruulAggro |->
         <<"G","r","u","u","l"," ","a","g","g","r","o">>,
     U |->
         <<"U">>,
     R |->
         <<"R">>,
     B |->
         <<"B">>,
     W |->
         <<"W">>,
     G |->
         <<"G">>,
     NoneText |->
         <<"N","o","n","e">>
    ]


\* line 90: an archetype needs more than this many matching cards
ArchetypeMinimum == 10
\* line 91: matching_cards[:20]
ArchetypeSample == 20
\* line 95: card_list[:15]
ArchetypeShown == 15

\* lines 37-49: the record process_card_data makes of one raw card;
\* type_line and rarity are read with no default
card_info(card) ==
    [name |-> Get(card, "name", None),
     mana_cost |-> Get(card, "mana_cost", <<>>),
     cmc |-> Get(card, "cmc", 0),
     type_line |-> Get(card, "type_line", None),
     oracle_text |-> Get(card, "oracle_text", <<>>),
     colors |-> Get(card, "colors", <<>>),
     color_identity |-> Get(card, "color_identity", <<>>),
     power |-> Get(card, "power", None),
     toughness |-> Get(card, "toughness", None),
     keywords |-> Get(card, "keywords", <<>>),
     rarity |-> Get(card, "rarity", None)]

\* lines 32-52
process_card_data(cs) ==
    [k \in 1..Len(cs) |-> card_info(cs[k])]

\* what an f-string makes of a value that is a text or None
Str(v) ==
    IF v = None THEN MtgText.NoneText ELSE v

\* line 65: `"Creature" in card["type_line"]` raises TypeError on None
RaisesTypeError(card) ==
    card.type_line = None

\* lines 61-75: the example of a card with a non-empty oracle text and a
\* type line that is a text
analysis_example(card) ==
    LET T == MtgText
        prompt == Concat(<<T.AnalyzeCard, Str(card.name), T.ManaCost,
                           Str(card.mana_cost), T.Type, Str(card.type_line),
                           T.Text, Str(card.oracle_text)>>)
        opening == Concat(<<T.ThisIsA, Str(card.type_line), T.ThatCosts,
                            Str(card.mana_cost), T.Stop>>)
        stats == IF Contains(T.Creature, card.type_line)
                 THEN Concat(<<T.CreatureWith, Str(card.power), T.Slash,
                               Str(card.toughness), T.Stats>>)
                 ELSE <<>>
        abilities == IF card.keywords # <<>>
                     THEN T.Abilities \o Join(T.Comma, card.keywords)
                          \o T.Stop
                     ELSE <<>>
    IN  [instruction |-> T.AnalyzeInstruction,
         input |-> prompt,
         output |-> opening \o stats \o abilities]

\* lines 78-86
color_combos ==
    << [colors |-> {MtgText.U}, archetype |-> MtgText.BlueControl],
       [colors |-> {MtgText.R}, archetype |-> MtgText.RedAggro],
       [colors |-> {MtgText.B}, archetype |-> MtgText.BlackSacrifice],
       [colors |-> {MtgText.W}, archetype |-> MtgText.WhiteWeenie],
       [colors |-> {MtgText.G}, archetype |-> MtgText.GreenRamp],
       [colors |-> {MtgText.U, MtgText.B}, archetype |-> MtgText.DimirControl],
       [colors |-> {MtgText.R, MtgText.G}, archetype |-> MtgText.GruulAggro] >>

\* line 89: the cards whose color identity holds every one of `colors`
RECURSIVE Matching(_, _)
Matching(s, colors) ==
    IF s = <<>> THEN <<>>
    ELSE (IF colors \subseteq Range(Head(s).color_identity)
          THEN <<Head(s)>> ELSE <<>>) \o Matching(Tail(s), colors)

\* lines 88-96: the examples of the archetypes, in the order of color_combos
RECURSIVE archetype_examples(_, _)
archetype_examples(cs, k) ==
    IF k > Len(color_combos) THEN <<>>
    ELSE LET T == MtgText
             archetype == color_combos[k].archetype
             matching_cards == Matching(cs, color_combos[k].colors)
             sample == Take(matching_cards, ArchetypeSample)
             card_list == [n \in 1..Len(sample) |-> sample[n].name]
         IN  (IF Len(matching_cards) > ArchetypeMinimum
              THEN << [instruction |-> T.SuggestInstruction,
                       input |-> Concat(<<T.WantToBuild, archetype,
                                          T.DeckQuestion>>),
                       output |-> Concat(<<T.ForA, archetype, T.Consider,
                                     Join(T.Comma,
                                          Take(card_list, ArchetypeShown)),
                                     T.Synergize, archetype, T.Strategy>>)] >>
              ELSE <<>>)
             \o archetype_examples(cs, k + 1)

\* line 109: processed = process_card_data(cards)
ProcessCards ==
    /\ pc = "process"
    /\ processed_cards' = process_card_data(raw_cards)
    /\ pc' = "examples"
    /\ i' = 1
    /\ UNCHANGED <<cards, known_combos, raw_cards, card_features,
                   training_examples>>
    /\ UNCHANGED <<combo_cards, known_card_sets, discoveries, calls,
                   genDefault, deviated, failedAt, saved, pairLimit,
                   tripleLimit, firstRun>>
    /\ UNCHANGED <<collectVars, explorerVars>>
    /\ UNCHANGED sessionVars

\* lines 59-75: one turn of the loop over the cards, which completes
AnalyzeCard ==
    /\ pc = "examples"
    /\ i <= Len(processed_cards)
    /\ LET card == processed_cards[i]
       IN  IF card.oracle_text = <<>>
           THEN training_examples' = training_examples
           ELSE /\ ~RaisesTypeError(card)
                /\ training_examples' =
                       Append(training_examples, analysis_example(card))
    /\ i' = i + 1
    /\ UNCHANGED <<cards, known_combos, pc, raw_cards, card_features,
                   processed_cards>>
    /\ UNCHANGED <<combo_cards, known_card_sets, discoveries, calls,
                   genDefault, deviated, failedAt, saved, pairLimit,
                   tripleLimit, firstRun>>
    /\ UNCHANGED <<collectVars, explorerVars>>
    /\ UNCHANGED sessionVars

\* lines 59-65: one turn of the loop, which raises TypeError: the function
\* returns nothing
AnalyzeCardRaises ==
    /\ pc = "examples"
    /\ i <= Len(processed_cards)
    /\ processed_cards[i].oracle_text # <<>>
    /\ RaisesTypeError(processed_cards[i])
    /\ pc' = "raised"
    /\ UNCHANGED <<cards, known_combos, raw_cards, card_features,
                   processed_cards, training_examples>>
    /\ UNCHANGED <<searchVars, collectVars, explorerVars>>
    /\ UNCHANGED sessionVars

\* lines 77-98: the archetype examples are added and the list returned
ReturnExamples ==
    /\ pc = "examples"
    /\ i > Len(processed_cards)
    /\ training_examples' =
           training_examples \o archetype_examples(processed_cards, 1)
    /\ pc' = "created"
    /\ UNCHANGED <<cards, known_combos, raw_cards, card_features,
                   processed_cards>>
    /\ UNCHANGED <<searchVars, collectVars, explorerVars>>
    /\ UNCHANGED sessionVars

\* a list long enough for an archetype example: eleven blue cards
BlueCards ==
    [k \in 1..(ArchetypeMinimum + 1) |->
        RawCard(CardName(k), RawText.TypeCreature, RawText.DrawLower)]

InitMtg ==
    /\ \/ \E c \in RawCards : raw_cards = <<c>>
       \/ \E n \in 0..MaxRawCards : raw_cards \in [1..n -> ComparedCards]
       \/ raw_cards = BlueCards
    /\ pc = "process"
    /\ processed_cards = <<>>
    /\ training_examples = <<>>
    /\ cards = <<>>
    /\ card_features = <<>>
    /\ OthersIdle
    /\ card_names = <<>>
    /\ cards_found = <<>>
    /\ warnings = <<>>
    /\ prompts = <<>>
    /\ result = <<>>
    /\ global_step = 0
    /\ cache_clears = 0
    /\ train_exit = "none"
    /\ save_log = <<>>
    /\ user_input = <<>>
    /\ printed = <<>>

NextMtg ==
    \/ ProcessCards
    \/ AnalyzeCard
    \/ AnalyzeCardRaises
    \/ ReturnExamples

SpecMtg ==
    InitMtg /\ [][NextMtg]_vars

-----------------------------------------------------------------------------
(* train_gemma.py: the training call of main and what follows it           *)

\* line 30: the callback clears the cache when global_step % 5 == 0
CacheInterval == 5
\* line 208: save_steps, the distance between checkpoints
SaveSteps == 10

\* the number of optimizer steps of a complete training
MaxSteps == 12

\* the training call that leaves main on an error: nothing is saved
TrainEnds_ErrorLeaves ==
    /\ pc = "train"
    /\ \E exit \in {"normal", "interrupt", "error"} :
          /\ exit = "normal" => global_step = MaxSteps
          /\ train_exit' = exit
          /\ pc' = IF exit = "error" THEN "fatal" ELSE "save"
    /\ UNCHANGED <<cards, known_combos, global_step, cache_clears, save_log,
                   user_input, printed>>
    /\ UNCHANGED <<searchVars, collectVars, extractVars, explorerVars,
                   mtgVars>>

\* line 246 and lines 29-32: one step of trainer.train(), after which the
\* trainer calls on_step_end with the number of steps done
TrainStep ==
    /\ pc = "train"
    /\ global_step < MaxSteps
    /\ global_step' = global_step + 1
    /\ cache_clears' = IF global_step' % CacheInterval = 0
                       THEN cache_clears + 1 ELSE cache_clears
    /\ UNCHANGED <<cards, known_combos, pc, train_exit, save_log, user_input,
                   printed>>
    /\ UNCHANGED <<searchVars, collectVars, extractVars, explorerVars,
                   mtgVars>>

\* lines 245-252: trainer.train() returns after the last step, or raises
\* KeyboardInterrupt or an Exception at any time; both handlers print and
\* fall through to the statements after the try
TrainEnds ==
    /\ pc = "train"
    /\ \E exit \in {"normal", "interrupt", "error"} :
          /\ exit = "normal" => global_step = MaxSteps
          /\ train_exit' = exit
    /\ pc' = "save"
    /\ UNCHANGED <<cards, known_combos, global_step, cache_clears, save_log,
                   user_input, printed>>
    /\ UNCHANGED <<searchVars, collectVars, extractVars, explorerVars,
                   mtgVars>>

\* lines 255-258 and 262-268: trainer.save_model, then
\* tokenizer.save_pretrained; either may raise, which ends main at the
\* handler of line 264 with the later save not attempted
SaveFinalModel ==
    /\ pc = "save"
    /\ \/ /\ save_log' = <<[what |-> "model", ok |-> TRUE],
                           [what |-> "tokenizer", ok |-> TRUE]>>
          /\ pc' = "done"
       \/ /\ save_log' = <<[what |-> "model", ok |-> FALSE]>>
          /\ pc' = "fatal"
       \/ /\ save_log' = <<[what |-> "model", ok |-> TRUE],
                           [what |-> "tokenizer", ok |-> FALSE]>>
          /\ pc' = "fatal"
    /\ UNCHANGED <<cards, known_combos, global_step, cache_clears, train_exit,
                   user_input, printed>>
    /\ UNCHANGED <<searchVars, collectVars, extractVars, explorerVars,
                   mtgVars>>

\* lines 121 and 246: training starts at step 0, or at the step of the
\* latest checkpoint
InitTrain ==
    /\ pc = "train"
    /\ global_step \in {0, SaveSteps}
    /\ cache_clears = 0
    /\ train_exit = "none"
    /\ save_log = <<>>
    /\ user_input = <<>>
    /\ printed = <<>>
    /\ cards = <<>>
    /\ OthersIdle
    /\ ToolsIdle

NextTrain ==
    \/ TrainStep
    \/ TrainEnds
    \/ SaveFinalModel

SpecTrain ==
    InitTrain /\ [][NextTrain]_vars

-----------------------------------------------------------------------------
(* The components that read the feature records and the known combos       *)

\* a run of collect_combo_data.main (generate_potential_combos,
\* create_reasoning_examples) or of discover_combos.main
\* (discover_new_combos)
SpecReaders ==
    (InitCollect \/ InitDiscover) /\ [][NextCollect \/ NextDiscover]_vars

-----------------------------------------------------------------------------
(* combo_explorer.py: ComboExplorer.interactive_mode                       *)

\* str.strip(): the text without its leading and trailing white space
Strip(text) ==
    LET keep == {k \in 1..Len(text) : text[k] \notin {" ", "\n", "\t"}}
    IN  IF keep = {} THEN <<>>
        ELSE SubSeq(text,
                    CHOOSE k \in keep : \A j \in keep : k <= j,
                    CHOOSE k \in keep : \A j \in keep : j <= k)

\* line 109: [c.strip() for c in text.split(",")]
SplitNames(text) ==
    LET commas == {k \in 1..Len(text) : text[k] = ","}
        n == Cardinality(commas)
        comma(m) == IF m = 0 THEN 0
                    ELSE IF m = n + 1 THEN Len(text) + 1
                    ELSE CHOOSE k \in commas :
                             Cardinality({j \in commas : j <= k}) = m
    IN  [m \in 1..(n + 1) |->
            Strip(SubSeq(text, comma(m - 1) + 1, comma(m) - 1))]

\* line 102: user_input = input("\n> ").strip()
ReadCommand ==
    /\ pc = "prompt"
    /\ Len(user_input) < MaxCommands
    /\ \E line \in {ExplorerText.LineQuit, ExplorerText.LineExit,
                    ExplorerText.LineQ, ExplorerText.LineCombo,
                    ExplorerText.LineComboUpper, ExplorerText.LineSuggest,
                    ExplorerText.LineSuggestGhost, ExplorerText.LineHelp,
                    ExplorerText.LineComboBare} :
          user_input' = Append(user_input, Strip(line))
    /\ pc' = "command"
    /\ UNCHANGED <<cards, known_combos, global_step, cache_clears,
                   train_exit, save_log, printed>>
    /\ UNCHANGED <<searchVars, collectVars, extractVars, explorerVars,
                   mtgVars>>

\* lines 104-106: quit, exit or q in any case ends the loop
Quit ==
    /\ pc = "command"
    /\ Lower(user_input[Len(user_input)])
           \in {ExplorerText.Quit, ExplorerText.Exit, ExplorerText.Q}
    /\ printed' = Append(printed, ExplorerText.Goodbye)
    /\ pc' = "bye"
    /\ UNCHANGED <<cards, known_combos, global_step, cache_clears,
                   train_exit, save_log, user_input>>
    /\ UNCHANGED <<searchVars, collectVars, extractVars, explorerVars,
                   mtgVars>>

\* lines 108-111: a combo command: the names are split off and
\* analyze_combo is entered (line 54)
ComboCommand ==
    /\ pc = "command"
    /\ LET command == user_input[Len(user_input)]
           lowered == Lower(command)
       IN  /\ lowered \notin {ExplorerText.Quit, ExplorerText.Exit,
                              ExplorerText.Q}
           /\ Take(lowered, 6) = ExplorerText.ComboWord
           /\ card_names' = SplitNames(SubSeq(command, 7, Len(command)))
    /\ printed' = Append(printed,
                         ExplorerText.Analyzing
                         \o Join(ExplorerText.Plus, card_names')
                         \o ExplorerText.Newline)
    /\ cards_found' = <<>>
    /\ i' = 1
    /\ pc' = "analyze"
    /\ UNCHANGED <<cards, known_combos, warnings, prompts, result,
                   global_step, cache_clears, train_exit, save_log,
                   user_input>>
    /\ UNCHANGED <<combo_cards, known_card_sets, discoveries, calls,
                   genDefault, deviated, failedAt, saved, pairLimit,
                   tripleLimit, firstRun>>
    /\ UNCHANGED <<collectVars, extractVars, mtgVars>>

\* line 112: analyze_combo has returned; the result is printed and the
\* loop reads the next command
PrintResult ==
    /\ pc = "analyzed"
    /\ printed' = Append(printed, result)
    /\ pc' = "prompt"
    /\ UNCHANGED <<cards, known_combos, global_step, cache_clears,
                   train_exit, save_log, user_input>>
    /\ UNCHANGED <<searchVars, collectVars, extractVars, explorerVars,
                   mtgVars>>

\* lines 114-118 and 78-88: a suggest command, with suggest_combo_pieces:
\* a card that is not found gives a message; for a card found the
\* generator is asked and answers or raises
SuggestCommand ==
    /\ pc = "command"
    /\ LET command == user_input[Len(user_input)]
           lowered == Lower(command)
           card_name == Strip(SubSeq(command, 9, Len(command)))
           card == find_card(cards, card_name)
           heading == ExplorerText.Finding \o card_name
                      \o ExplorerText.Newline
       IN  /\ lowered \notin {ExplorerText.Quit, ExplorerText.Exit,
                              ExplorerText.Q}
           /\ Take(lowered, 6) # ExplorerText.ComboWord
           /\ Take(lowered, 8) = ExplorerText.SuggestWord
           /\ IF card = 0
              THEN /\ printed' = printed
                        \o <<heading,
                             ExplorerText.NotFoundPrefix \o card_name
                             \o ExplorerText.NotFoundSuffix>>
                   /\ pc' = "prompt"
                   /\ UNCHANGED <<prompts, deviated>>
              ELSE /\ prompts' = Append(prompts,
                          [instruction |-> ExplorerText.SuggestInstruction,
                           input_text |-> CardDescription(cards[card])])
                   /\ \E o \in Outcomes :
                         /\ generate_response(o)
                         /\ IF o.ok
                            THEN /\ printed' = printed \o <<heading, o.text>>
                                 /\ pc' = "prompt"
                            ELSE /\ printed' = Append(printed, heading)
                                 /\ pc' = "raised"
    /\ UNCHANGED <<cards, known_combos, card_names, cards_found, warnings,
                   result, global_step, cache_clears, train_exit, save_log,
                   user_input>>
    /\ UNCHANGED <<combo_cards, known_card_sets, i, discoveries, calls,
                   genDefault, failedAt, saved, pairLimit, tripleLimit,
                   firstRun>>
    /\ UNCHANGED <<collectVars, extractVars, mtgVars>>

\* lines 120-121: any other input
UnknownCommand ==
    /\ pc = "command"
    /\ LET lowered == Lower(user_input[Len(user_input)])
       IN  /\ lowered \notin {ExplorerText.Quit, ExplorerText.Exit,
                              ExplorerText.Q}
           /\ Take(lowered, 6) # ExplorerText.ComboWord
           /\ Take(lowered, 8) # ExplorerText.SuggestWord
    /\ printed' = Append(printed, ExplorerText.Unknown)
    /\ pc' = "prompt"
    /\ UNCHANGED <<cards, known_combos, global_step, cache_clears,
                   train_exit, save_log, user_input>>
    /\ UNCHANGED <<searchVars, collectVars, extractVars, explorerVars,
                   mtgVars>>

\* the handler that ends the loop after printing the exception
ReportError_Ends ==
    /\ pc = "raised"
    /\ printed' = Append(printed, ExplorerText.ErrorPrefix)
    /\ pc' = "bye"
    /\ UNCHANGED <<cards, known_combos, global_step, cache_clears,
                   train_exit, save_log, user_input>>
    /\ UNCHANGED <<searchVars, collectVars, extractVars, explorerVars,
                   mtgVars>>

\* lines 126-127: an exception raised by the command is printed and the
\* loop reads the next command
ReportError ==
    /\ pc = "raised"
    /\ printed' = Append(printed, ExplorerText.ErrorPrefix)
    /\ pc' = "prompt"
    /\ UNCHANGED <<cards, known_combos, global_step, cache_clears,
                   train_exit, save_log, user_input>>
    /\ UNCHANGED <<searchVars, collectVars, extractVars, explorerVars,
                   mtgVars>>

\* lines 123-125: Ctrl-C at the prompt or while a command is processed
KeyboardInterrupt ==
    /\ pc \in {"prompt", "command", "analyze"}
    /\ printed' = Append(printed, ExplorerText.InterruptGoodbye)
    /\ pc' = "bye"
    /\ UNCHANGED <<cards, known_combos, global_step, cache_clears,
                   train_exit, save_log, user_input>>
    /\ UNCHANGED <<searchVars, collectVars, extractVars, explorerVars,
                   mtgVars>>

\* line 100: the loop is entered with the database loaded
InitShell ==
    /\ cards \in ExplorerDatabases
    /\ pc = "prompt"
    /\ card_names = <<>>
    /\ cards_found = <<>>
    /\ warnings = <<>>
    /\ prompts = <<>>
    /\ result = <<>>
    /\ genDefault \in StubAnswers \cup {GeneratorError}
    /\ user_input = <<>>
    /\ printed = <<>>
    /\ global_step = 0
    /\ cache_clears = 0
    /\ train_exit = "none"
    /\ save_log = <<>>
    /\ known_combos = <<>>
    /\ combo_cards = <<>>
    /\ known_card_sets = {}
    /\ i = 1
    /\ discoveries = <<>>
    /\ calls = <<>>
    /\ deviated = FALSE
    /\ failedAt = <<>>
    /\ saved = [written |-> FALSE, content |-> <<>>]
    /\ pairLimit = PairPrefix
    /\ tripleLimit = TriplePrefix
    /\ firstRun = [ran |-> FALSE, discoveries |-> <<>>, calls |-> <<>>]
    /\ potential_combos = <<>>
    /\ reasoning_examples = <<>>
    /\ card_examples = <<>>
    /\ all_training_data = <<>>
    /\ raw_cards = <<>>
    /\ card_features = <<>>
    /\ processed_cards = <<>>
    /\ training_examples = <<>>

NextShell ==
    \/ ReadCommand
    \/ Quit
    \/ ComboCommand
    \/ LookUpName
    \/ ReturnTooFew
    \/ AnalyzeFound
    \/ AnalyzeRaises
    \/ PrintResult
    \/ SuggestCommand
    \/ UnknownCommand
    \/ ReportError
    \/ KeyboardInterrupt

SpecShell ==
    InitShell /\ [][NextShell]_vars

-----------------------------------------------------------------------------
(* Properties of discover_new_combos                                       *)

\* the generator invocations, and the discoveries, on pairs
PairCalls ==
    SelectSeq(calls, LAMBDA c : Len(c.cards) = 2)

PairDiscoveries ==
    SelectSeq(discoveries, LAMBDA d : Len(d.cards) = 2)

TripleDiscoveries ==
    SelectSeq(discoveries, LAMBDA d : Len(d.cards) = 3)

Stopped ==
    pc \in {"terminated", "interrupted"}

\* C1: a generator invocation that fails for one candidate does not abort
\* the search: the search goes on with the next candidate and still
\* returns its discoveries.
C1_FailureDoesNotAbortSearch ==
    failedAt # <<>> => pc \in {"pairs", "triples", "returned", "saved"}

\* C2: every pair and triple the generator is invoked for, and every
\* discovery, has a card-name set different from the card-name set of
\* every known combo.
C2_KnownCombosNeverTested ==
    \A j \in 1..Len(known_combos) :
        LET known == {known_combos[j].cards[n] :
                          n \in 1..Len(known_combos[j].cards)}
        IN  /\ \A k \in 1..Len(calls) :
                   {calls[k].cards[n] : n \in 1..Len(calls[k].cards)} # known
            /\ \A k \in 1..Len(discoveries) :
                   {discoveries[k].cards[n] :
                        n \in 1..Len(discoveries[k].cards)} # known
            /\ failedAt # <<>> =>
                   {failedAt[n] : n \in 1..Len(failedAt)} # known

\* a known pair and a known triple were met and the search went on to test
\* other candidates
C2_Witness ==
    /\ pc = "returned"
    /\ Len(known_combos) > 0
    /\ Len(combo_cards) >= 4
    /\ \E k \in 1..Len(calls) : Len(calls[k].cards) = 3
    /\ \E k \in 1..Len(calls) : Len(calls[k].cards) = 2

\* C3: with the same cards, known combos, triple budget and a generator
\* that answers alike, a run with larger prefix bounds invokes the
\* generator for a superset of the candidates and discovers a superset of
\* the combos of the run with smaller bounds.
C3_MonotoneWidening ==
    (firstRun.ran /\ pc = "returned") =>
        /\ Range(firstRun.discoveries) \subseteq Range(discoveries)
        /\ Range(firstRun.calls) \subseteq Range(calls)

\* the five keywords, in lower case
C4_HasKeyword(text) ==
    LET lowered == Lower(text)
    IN  \E kw \in {DiscoverText.Combo, DiscoverText.Infinite, DiscoverText.Synergy, DiscoverText.Loop, DiscoverText.Repeatedly} :
            \E k \in 0..(Len(text) - Len(kw)) :
                \A n \in 1..Len(kw) : lowered[k + n] = kw[n]

\* C4: the 2-card discoveries are exactly the tested pairs whose answer
\* contains a keyword when lower-cased, each tagged "potentially_new"; a
\* generator that always answers "This creates an infinite loop" has every
\* tested pair recorded and one that always answers "No interaction found"
\* has none.
C4_PairClassification ==
    LET tested == PairCalls
        tagged == [k \in 1..Len(tested) |->
                      [cards |-> tested[k].cards,
                       analysis |-> tested[k].analysis,
                       novelty |-> DiscoverText.PotentiallyNew]]
        found == PairDiscoveries
    IN  /\ found = SelectSeq(tagged, LAMBDA d : C4_HasKeyword(d.analysis))
        /\ (~deviated /\ genDefault.text = Answer.InfiniteLoop) =>
              Len(found) = Len(tested)
        /\ (~deviated /\ genDefault.text = Answer.NoInteraction) =>
              found = <<>>

\* the pair loop is over, an upper-case keyword made a discovery, and
\* another tested pair made none
C4_Witness ==
    /\ pc = "triples"
    /\ \E k \in 1..Len(PairDiscoveries) :
           PairDiscoveries[k].analysis = Answer.UpperSynergy
    /\ \E k \in 1..Len(PairCalls) : PairCalls[k].analysis = Answer.NoInteraction
    /\ Len(PairCalls) >= 3

\* the positions in the list `high` of the cards named `names`
C5_Indices(high, names) ==
    [k \in 1..Len(names) |->
        CHOOSE p \in 1..Len(high) : high[p].name = names[k]]

\* index tuple s comes before index tuple t in lexicographic order
C5_LexLess(s, t) ==
    \E k \in 1..Len(s) :
        /\ s[k] < t[k]
        /\ \A j \in 1..(k - 1) : s[j] = t[j]

\* C5: in the list of discoveries every 2-card record precedes every 3-card
\* record, and records of the same size are in lexicographic order of their
\* cards' indices in the high-potential list.
C5_DiscoveryOrder ==
    LET high == SelectSeq(cards, LAMBDA c : AbilityCount(c) >= 2)
    IN  \A j, k \in 1..Len(discoveries) :
            j < k =>
                LET a == discoveries[j].cards
                    b == discoveries[k].cards
                IN  /\ Len(a) <= Len(b)
                    /\ Len(a) = Len(b) =>
                           C5_LexLess(C5_Indices(high, a), C5_Indices(high, b))

\* the search returned at least two pairs and two triples
C5_Witness ==
    /\ pc = "returned"
    /\ Len(PairDiscoveries) >= 2
    /\ Len(TripleDiscoveries) >= 2

\* C6: when the run is stopped by an interruption or by a generator
\* failure, every discovery found so far has been written to
\* data/discovered_combos.json.
C6_PartialResultsPersisted ==
    Stopped =>
        \A k \in 1..Len(discoveries) :
            saved.written /\ discoveries[k] \in Range(saved.content)

-----------------------------------------------------------------------------
(* Properties of generate_potential_combos, create_reasoning_examples and  *)
(* the card-analysis loop                                                  *)

\* the number of true ability flags of a feature record
TrueFlags(card) ==
    {a \in DOMAIN card.abilities : card.abilities[a]}

\* text s ends with text t
EndsWith(s, t) ==
    /\ Len(t) <= Len(s)
    /\ \A k \in 1..Len(t) : s[Len(s) - Len(t) + k] = t[k]

\* C7: every candidate combo lists exactly two card names, and the two
\* names differ: no card is paired with itself in any of the patterns.
C7_NoSelfPairs ==
    \A k \in 1..Len(potential_combos) :
        /\ Len(potential_combos[k].cards) = 2
        /\ potential_combos[k].cards[1] # potential_combos[k].cards[2]

\* the generator ran on a list holding a card that is in both subsets of a
\* pattern and a second card of each of the two names' patterns
C7_Witness ==
    /\ pc = "generated"
    /\ \E k \in 1..Len(cards) :
           /\ cards[k].abilities["flicker"]
           /\ cards[k].abilities["enters_battlefield"]
           /\ cards[k].is_creature
    /\ \E k \in 1..Len(cards) :
           cards[k].abilities["untap"] /\ cards[k].abilities["tap_ability"]
    /\ Len(potential_combos) >= 1

\* C8: for exactly two feature records, one an enters-the-battlefield
\* creature with no other ability flag and one a non-creature with the
\* flicker flag only, the generator emits exactly one candidate, tagged
\* "ETB + Flicker", whose card list holds both names.
C8_EtbFlickerScenario ==
    (/\ pc # "collect"
     /\ Len(cards) = 2
     /\ \E e, f \in 1..2 :
           /\ e # f
           /\ TrueFlags(cards[e]) = {"enters_battlefield"}
           /\ cards[e].is_creature
           /\ TrueFlags(cards[f]) = {"flicker"}
           /\ ~cards[f].is_creature)
    => /\ Len(potential_combos) = 1
       /\ potential_combos[1].synergy_type =
              <<"E","T","B"," ","+"," ","F","l","i","c","k","e","r">>
       /\ {potential_combos[1].cards[n] :
               n \in 1..Len(potential_combos[1].cards)}
              = {cards[1].name, cards[2].name}

\* the generator ran on the two records of the scenario
C8_Witness ==
    /\ pc = "generated"
    /\ cards = <<CardWall, CardFlicker>>
    /\ Len(potential_combos) = 1

\* C9: the card-analysis example of a card rates it "High" exactly when
\* more than 2 of its ability flags are true, "Medium" exactly when 1 or 2
\* are, and "Low" exactly when none is.
C9_RatingBoundaries ==
    pc \in {"analysed", "collected"} =>
        /\ Len(card_examples) = Len(cards)
        /\ \A k \in 1..Len(card_examples) :
               LET n == Cardinality(TrueFlags(cards[k]))
                   out == card_examples[k].output
                   rated(r) == EndsWith(out, AnalysisText.ComboPotential \o r)
               IN  /\ rated(<<"H","i","g","h">>) <=> n > 2
                   /\ rated(<<"M","e","d","i","u","m">>) <=> (n = 1 \/ n = 2)
                   /\ rated(<<"L","o","w">>) <=> n = 0

\* cards with 0, with exactly 2 and with exactly 3 true flags were rated
C9_Witness ==
    /\ pc = "analysed"
    /\ \E k \in 1..Len(cards) : Cardinality(TrueFlags(cards[k])) = 0
    /\ \E k \in 1..Len(cards) : Cardinality(TrueFlags(cards[k])) = 2
    /\ \E k \in 1..Len(cards) : Cardinality(TrueFlags(cards[k])) = 3

\* the combo-explanation examples among the reasoning examples
C10_Explanations ==
    SelectSeq(reasoning_examples,
              LAMBDA e : e.instruction = ReasoningText.AnalyzeInfinite)

\* the known combos of type "infinite"
C10_InfiniteCombos ==
    SelectSeq(known_combos,
              LAMBDA c : c.type = <<"i","n","f","i","n","i","t","e">>)

\* the lines "1. <step 1>", "2. <step 2>", ... of the steps, one per line
RECURSIVE C10_StepLines(_, _)
C10_StepLines(steps, k) ==
    IF k > Len(steps) THEN <<>>
    ELSE DecStr(k) \o <<".", " ">> \o steps[k]
         \o (IF k < Len(steps) THEN <<"\n">> ELSE <<>>)
         \o C10_StepLines(steps, k + 1)

\* C10: there is exactly one combo-explanation example per known combo of
\* type "infinite" and none for the other combos; the example of an
\* infinite combo names its cards and its output contains the combo's
\* steps in their order, the k-th prefixed by the number k, from 1.
C10_NumberedSteps ==
    pc \in {"reasoned", "analysed", "collected"} =>
        /\ Len(C10_Explanations) = Len(C10_InfiniteCombos)
        /\ \A k \in 1..Len(C10_Explanations) :
               /\ C10_Explanations[k].input =
                      ReasoningText.Cards \o Join(ReasoningText.CommaSpace, C10_InfiniteCombos[k].cards)
               /\ Contains(ReasoningText.Steps
                           \o C10_StepLines(C10_InfiniteCombos[k].steps, 1)
                           \o ReasoningText.Result,
                           C10_Explanations[k].output)

\* examples were made from a list with an infinite combo of three steps
\* and two requirements
C10_Witness ==
    /\ pc = "reasoned"
    /\ Len(C10_Explanations) = 1
    /\ Len(known_combos[1].steps) = 3
    /\ Len(known_combos[1].requirements) = 2
    /\ known_combos[1].type = ReasoningText.Infinite

-----------------------------------------------------------------------------
(* Properties of extract_card_features                                     *)

\* the type flags of a feature record
C11_TypeFlags ==
    {"is_creature", "is_instant", "is_sorcery", "is_artifact",
     "is_enchantment", "is_land"}

\* C11: for a raw record with a name and any of the optional keys absent,
\* the extractor returns a feature record in which an absent text field is
\* the empty string, an absent list field the empty list, an absent cmc
\* zero, an absent power or toughness None, a present field the raw value,
\* and every ability flag and every type flag is a boolean.
C11_TotalOnMissingFields ==
    \A k \in 1..Len(card_features) :
        LET r == raw_cards[k]
            f == card_features[k]
        IN  /\ f.name = r.name
            /\ \A key \in {"mana_cost", "type_line", "oracle_text", "colors",
                            "color_identity", "keywords"} :
                   f[key] = IF key \in DOMAIN r THEN r[key] ELSE <<>>
            /\ \A key \in {"power", "toughness"} :
                   f[key] = IF key \in DOMAIN r THEN r[key] ELSE None
            /\ f.cmc = IF "cmc" \in DOMAIN r THEN r.cmc ELSE 0
            /\ DOMAIN f.abilities = AbilityNames
            /\ \A a \in AbilityNames : f.abilities[a] \in BOOLEAN
            /\ \A t \in C11_TypeFlags : f[t] \in BOOLEAN

\* a record holding nothing but a name has been extracted
C11_Witness ==
    /\ pc = "extracted"
    /\ Len(raw_cards) = 1
    /\ DOMAIN raw_cards[1] = {"name"}
    /\ card_features[1].oracle_text = <<>>
    /\ card_features[1].power = None
    /\ \A a \in AbilityNames : ~card_features[1].abilities[a]

\* C12: two raw records with equal oracle text and equal type line get
\* identical ability flags and type flags whatever their names are, and
\* two extractions of the same raw record give identical feature records.
C12_FlagsFromTextAndType ==
    \A j, k \in 1..Len(card_features) :
        /\ (/\ GetText(raw_cards[j], "oracle_text")
                  = GetText(raw_cards[k], "oracle_text")
            /\ GetText(raw_cards[j], "type_line")
                  = GetText(raw_cards[k], "type_line"))
           => /\ card_features[j].abilities = card_features[k].abilities
              /\ \A t \in C11_TypeFlags :
                     card_features[j][t] = card_features[k][t]
        /\ raw_cards[j] = raw_cards[k]
           => card_features[j] = card_features[k]

\* two cards named differently, one of them named in the shared oracle
\* text, have been extracted
C12_Witness ==
    /\ pc = "extracted"
    /\ Len(raw_cards) = 2
    /\ raw_cards[1].name = RawText.Guard
    /\ raw_cards[2].name = RawText.Wall
    /\ raw_cards[1].oracle_text = RawText.WhenDies
    /\ raw_cards[2].oracle_text = RawText.WhenDies
    /\ raw_cards[1].type_line = raw_cards[2].type_line
    /\ card_features[2].abilities.dies

\* C13: when the oracle text of one card is that of another with the text
\* "draw a card" added, its draw flag is true and each of its other
\* ability flags has the value it has for the other card.
C13_DrawFlagIndependent ==
    \A j, k \in 1..Len(card_features) :
        (/\ "oracle_text" \in DOMAIN raw_cards[j]
         /\ "oracle_text" \in DOMAIN raw_cards[k]
         /\ raw_cards[k].oracle_text
               = WithDrawACard(raw_cards[j].oracle_text))
        => /\ card_features[k].abilities.draw
           /\ \A a \in AbilityNames \ {"draw"} :
                  card_features[k].abilities[a] = card_features[j].abilities[a]

\* a card that sacrifices and untaps, and the same card with the text
\* added, have been extracted: the first does not draw, the second does
C13_Witness ==
    /\ pc = "extracted"
    /\ Len(raw_cards) = 2
    /\ raw_cards[1].oracle_text = RawText.SacUntap
    /\ raw_cards[2].oracle_text = WithDrawACard(RawText.SacUntap)
    /\ ~card_features[1].abilities.draw
    /\ card_features[1].abilities.sacrifice
    /\ card_features[2].abilities.draw
    /\ card_features[2].abilities.sacrifice

\* C19: two oracle texts that differ in letter case only give identical
\* values for every ability flag, tap_ability included.
C19_FlagsIgnoreCase ==
    \A j, k \in 1..Len(card_features) :
        Lower(GetText(raw_cards[j], "oracle_text"))
            = Lower(GetText(raw_cards[k], "oracle_text"))
        => card_features[j].abilities = card_features[k].abilities

-----------------------------------------------------------------------------
(* Properties of ComboExplorer.analyze_combo                               *)

\* the name is that of a card of the database, letter case aside
C14_InDatabase(name) ==
    \E k \in 1..Len(cards) : Lower(cards[k].name) = Lower(name)

\* C14: a requested name that matches no card of the database is warned
\* about and the loop goes on to the next name; no card of that name is
\* among the cards found or in the text passed to the generator; with
\* fewer than two cards found the generator is not invoked and the message
\* is returned, otherwise it is invoked once, with the cards found.
C14_MissingCardIsNonFatal ==
    (pc \in {"analyze", "analyzed", "raised"}) =>
        /\ \A k \in 1..(i - 1) :
               /\ C14_InDatabase(card_names[k])
                      <=> card_names[k] \notin Range(warnings)
               /\ ~C14_InDatabase(card_names[k])
                      => \A n \in 1..Len(cards_found) :
                             Lower(cards_found[n].name) # Lower(card_names[k])
        /\ Len(cards_found) + Len(warnings) = i - 1
        /\ pc = "analyze" => prompts = <<>>
        /\ pc = "raised" => Len(cards_found) >= 2
        /\ pc \in {"analyzed", "raised"} =>
               IF Len(cards_found) < 2
               THEN /\ prompts = <<>>
                    /\ result = ExplorerText.TooFew
               ELSE /\ Len(prompts) = 1
                    /\ \A n \in 1..Len(warnings) :
                           ~Contains(warnings[n], prompts[1].input_text)
                    /\ \A n \in 1..Len(cards_found) :
                           Contains(cards_found[n].name,
                                    prompts[1].input_text)

\* a request naming an unknown card between two known ones was answered
C14_Witness ==
    /\ pc = "analyzed"
    /\ card_names = <<ExplorerText.bear, ExplorerText.Ghost,
                      ExplorerText.WALL>>
    /\ warnings = <<ExplorerText.Ghost>>
    /\ Len(cards_found) = 2
    /\ Len(prompts) = 1
    /\ result = Answer.InfiniteLoop

-----------------------------------------------------------------------------
(* Properties of collect_mtg_data.py                                       *)

\* C15: process_card_data followed by create_training_examples never ends
\* in an error: it returns its examples also when a raw card with a
\* non-empty oracle text has no type_line.
C15_MissingTypeLineRecovered ==
    pc # "raised"

-----------------------------------------------------------------------------
(* Further properties of discover_new_combos                               *)

\* the generator invocations for triples, in order
C16_TripleCalls ==
    SelectSeq(calls, LAMBDA c : Len(c.index) = 3)

\* C16: the generator is invoked for at most TripleBudget triples, and
\* every triple it is invoked for is among the first TripleBudget triples
\* of the enumeration, the skipped ones counted.
C16_TripleBudgetBounds ==
    (pc \in {"pairs", "triples", "returned", "saved", "terminated",
             "interrupted"}) =>
        /\ Len(C16_TripleCalls) <= TripleBudget
        /\ \A k \in 1..Len(C16_TripleCalls) :
               \E n \in 1..TripleBudget :
                   /\ n <= Len(TripleCandidates)
                   /\ TripleCandidates[n] = C16_TripleCalls[k].index
        /\ pc = "triples" => i <= TripleBudget + 1

\* a search over more triples than the budget returned after skipping a
\* known combo among the first of them
C16_Witness ==
    /\ pc = "returned"
    /\ Len(TripleCandidates) > TripleBudget
    /\ IsKnownCombo(CandidateNames(TripleCandidates[1]))
    /\ Len(C16_TripleCalls) = TripleBudget - 1

\* "yes" occurs in the lowered text, wholly within its first 100 characters
C17_EarlyYes(lowered) ==
    \E k \in 1..98 :
        /\ k + 2 <= Len(lowered)
        /\ lowered[k] = "y" /\ lowered[k + 1] = "e" /\ lowered[k + 2] = "s"

\* C17: a tested triple is a discovery if and only if the lower-cased
\* answer contains "infinite" or has "yes" within its first 100
\* characters; an answer whose only "yes" comes later is none, and with a
\* generator that only answers "No interaction found" no triple is.
C17_TripleClassification ==
    (pc \in {"pairs", "triples", "returned", "saved", "terminated",
             "interrupted"}) =>
        LET tested == C16_TripleCalls
            found == SelectSeq(discoveries, LAMBDA d : Len(d.cards) = 3)
            positive == SelectSeq(tested, LAMBDA c :
                            LET lowered == Lower(c.analysis)
                            IN  \/ Contains(<<"i","n","f","i","n","i","t","e">>,
                                            lowered)
                                \/ C17_EarlyYes(lowered))
        IN  /\ found = [k \in 1..Len(positive) |->
                          [cards |-> positive[k].cards,
                           analysis |-> positive[k].analysis,
                           novelty |-> DiscoverText.PotentiallyNew]]
            /\ \A k \in 1..Len(tested) :
                   tested[k].analysis \in {Answer.LateYes, Answer.SplitYes,
                                           Answer.NoInteraction}
                   => \A n \in 1..Len(found) :
                          found[n].cards # tested[k].cards

\* a search returned in which one triple got the answer with the late
\* "yes" and one the answer whose "yes" ends at character 100 is not
\* possible in one run (the generator departs from its answer once), so the
\* witness takes the late one: it was given for a triple and not recorded
C17_Witness ==
    /\ pc = "returned"
    /\ \E k \in 1..Len(calls) :
          /\ Len(calls[k].index) = 3
          /\ calls[k].analysis = Answer.LateYes
    /\ \A n \in 1..Len(discoveries) : Len(discoveries[n].cards) # 3

\* the number of cards with at least two true flags among the first p
\* cards of the database
C18_Rank(p) ==
    Cardinality({q \in 1..p : AbilityCount(cards[q]) >= 2})

\* the position in the database of the card named `name`
C18_Position(name) ==
    CHOOSE p \in 1..Len(cards) : cards[p].name = name

\* C18: every card given to the generator has at least two true ability
\* flags and so has every card of a discovery; the cards of a pair are
\* among the first PairPrefix, those of a triple among the first
\* TriplePrefix cards with at least two true flags, in input order; and no
\* unordered pair is tested twice.
C18_OnlyHighPotentialPrefix ==
    (pc \in {"pairs", "triples", "returned", "saved", "terminated",
             "interrupted"}) =>
        /\ \A k \in 1..Len(calls) : \A n \in 1..Len(calls[k].cards) :
               LET p == C18_Position(calls[k].cards[n])
               IN  /\ AbilityCount(cards[p]) >= 2
                   /\ C18_Rank(p) <= IF Len(calls[k].cards) = 2
                                     THEN PairPrefix ELSE TriplePrefix
        /\ \A k \in 1..Len(discoveries) :
               \A n \in 1..Len(discoveries[k].cards) :
                   AbilityCount(cards[C18_Position(discoveries[k].cards[n])])
                       >= 2
        /\ \A j \in 1..Len(calls) : \A k \in (j + 1)..Len(calls) :
               Len(calls[j].cards) = Len(calls[k].cards)
               => Range(calls[j].cards) # Range(calls[k].cards)

\* a search over a database with a card of one true flag and more
\* high-potential cards than the triple prefix takes returned discoveries
C18_Witness ==
    /\ pc = "returned"
    /\ \E p \in 1..Len(cards) : AbilityCount(cards[p]) = 1
    /\ Len(combo_cards) > TriplePrefix
    /\ \E k \in 1..Len(discoveries) : Len(discoveries[k].cards) = 3
    /\ \E k \in 1..Len(discoveries) : Len(discoveries[k].cards) = 2

-----------------------------------------------------------------------------
(* Properties of the pairwise examples of create_reasoning_examples         *)

\* the input text of the pairwise examples among the reasoning examples
C20_PairwiseInputs ==
    LET pairwise == SelectSeq(reasoning_examples,
                        LAMBDA e : e.instruction = ReasoningText.ExplainInteraction)
    IN  [k \in 1..Len(pairwise) |-> pairwise[k].input]

\* the name is the name of a feature record
C20_Present(name) ==
    \E k \in 1..Len(cards) : cards[k].name = name

\* "Card 1: <name>\n<text>\n\nCard 2: <name>\n<text>" for the two names,
\* the text being that of the last feature record of the name
C20_Input(name1, name2) ==
    LET last(name) ==
            cards[CHOOSE k \in 1..Len(cards) :
                     /\ cards[k].name = name
                     /\ \A j \in 1..Len(cards) : cards[j].name = name => j <= k]
    IN  ReasoningText.Card1 \o name1 \o ReasoningText.Newline
        \o last(name1).oracle_text
        \o ReasoningText.Card2 \o name2 \o ReasoningText.Newline
        \o last(name2).oracle_text

\* C20 as stated: for each of the first 10 known combos the pairwise
\* example is built from the cards at positions 1 and 2 of the combo's card
\* list, and there is none for a combo of which one of these two is absent
\* from the feature records.
C20_FirstTwoListed ==
    (pc \in {"reasoned", "analysed", "collected"}) =>
        LET usable == SelectSeq(Take(known_combos, ComboPrefix),
                          LAMBDA combo :
                              /\ Len(combo.cards) >= 2
                              /\ C20_Present(combo.cards[1])
                              /\ C20_Present(combo.cards[2]))
        IN  C20_PairwiseInputs =
                [k \in 1..Len(usable) |->
                    C20_Input(usable[k].cards[1], usable[k].cards[2])]

\* C20 (amended): for each of the first 10 known combos of which at least
\* two listed cards are among the feature records, the pairwise example is
\* built from the first two of its listed cards that are present, in list
\* order; there is none for a combo with fewer than two cards present, and
\* none for a combo after the tenth.
C20_FirstTwoPresent ==
    (pc \in {"reasoned", "analysed", "collected"}) =>
        LET present(combo) == SelectSeq(combo.cards, C20_Present)
            usable == SelectSeq(Take(known_combos, ComboPrefix),
                          LAMBDA combo : Len(present(combo)) >= 2)
        IN  C20_PairwiseInputs =
                [k \in 1..Len(usable) |->
                    C20_Input(present(usable[k])[1], present(usable[k])[2])]

\* the examples were built for a combo of three cards of which the first
\* is absent and the other two are present, and the pairwise example of
\* these two is among them
C20_Witness ==
    /\ pc = "reasoned"
    /\ \E n \in 1..Len(known_combos) :
          LET listed == known_combos[n].cards
          IN  /\ n <= ComboPrefix
              /\ Len(listed) = 3
              /\ ~C20_Present(listed[1])
              /\ C20_Present(listed[2])
              /\ C20_Present(listed[3])
              /\ \E k \in 1..Len(C20_PairwiseInputs) :
                     C20_PairwiseInputs[k] = C20_Input(listed[2], listed[3])

-----------------------------------------------------------------------------
(* Dependencies between the ability flags of extract_card_features          *)

\* C26: in every feature record bounce true implies return_to_hand true,
\* bounce true implies that the lower-cased oracle text contains "return",
\* and bounce true with "exile" in the lower-cased text implies flicker
\* true.
C26_BounceImplies ==
    \A k \in 1..Len(card_features) :
        LET flags == card_features[k].abilities
            lowered == Lower(card_features[k].oracle_text)
        IN  flags.bounce =>
                /\ flags.return_to_hand
                /\ Contains(<<"r","e","t","u","r","n">>, lowered)
                /\ Contains(<<"e","x","i","l","e">>, lowered) => flags.flicker

\* a card that returns a creature to its owner's hand and does not exile,
\* and one that exiles and returns to the owner's hand, have been extracted
C26_Witness ==
    /\ pc = "extracted"
    /\ Len(card_features) = 2
    /\ card_features[1].oracle_text = RawText.Unsummon
    /\ card_features[1].abilities.bounce
    /\ ~card_features[1].abilities.flicker
    /\ card_features[2].oracle_text = RawText.Recall
    /\ card_features[2].abilities.bounce
    /\ card_features[2].abilities.flicker

-----------------------------------------------------------------------------
(* The length of the generated texts                                       *)

\* C21: an oracle text of more than ExcerptLength characters is in no
\* generated text field as a whole: not in the input of a training example
\* (pairwise interaction example, single-card analysis example) and not in
\* the analysis of a candidate record.
C21_OracleTextExcerpted ==
    pc = "collected" =>
        \A k \in 1..Len(cards) :
            Len(cards[k].oracle_text) > ExcerptLength =>
                /\ \A n \in 1..Len(all_training_data) :
                       ~Contains(cards[k].oracle_text,
                                 all_training_data[n].input)
                /\ \A n \in 1..Len(potential_combos) :
                       ~Contains(cards[k].oracle_text,
                                 potential_combos[n].analysis)

-----------------------------------------------------------------------------
(* Properties of train_gemma.py                                            *)

\* C22: however trainer.train() ends, normally, with an error or with an
\* interrupt by the user, the script goes on to the save step: it never
\* terminates after training without having attempted trainer.save_model,
\* and it attempts tokenizer.save_pretrained once save_model has returned.
C22_SaveReachedOnEveryExit ==
    /\ train_exit \in {"normal", "interrupt", "error"}
       => pc \in {"save", "done", "fatal"}
    /\ pc \in {"done", "fatal"}
       => /\ train_exit \in {"normal", "interrupt", "error"}
          /\ Len(save_log) >= 1
          /\ save_log[1].what = "model"
          /\ save_log[1].ok
             => Len(save_log) = 2 /\ save_log[2].what = "tokenizer"

\* training failed with an error after some steps, and the adapter model
\* and the tokenizer were saved
C22_Witness ==
    /\ pc = "done"
    /\ train_exit = "error"
    /\ global_step \in 1..(MaxSteps - 1)
    /\ Len(save_log) = 2
    /\ save_log[1].ok /\ save_log[2].ok

\* C23: the cache is cleared after every training step: each step of the
\* trainer is followed by a call of torch.cuda.empty_cache().
C23_CacheClearedAfterEveryStep ==
    [][global_step' = global_step + 1 => cache_clears' = cache_clears + 1]_vars

-----------------------------------------------------------------------------
(* Properties of the readers of the feature records                        *)

\* C24: no step of generate_potential_combos, create_reasoning_examples or
\* discover_new_combos changes the feature records or the known-combo
\* records it was given: the same records, in the same order, with the
\* same field values, whatever the generator returns.
C24_InputsOnlyRead ==
    [][cards' = cards /\ known_combos' = known_combos]_vars

\* a search over cards of which one is not of high potential, with a known
\* combo, has returned discoveries after the generator gave two different
\* answers
C24_Witness ==
    /\ pc = "returned"
    /\ deviated
    /\ discoveries # <<>>
    /\ known_combos # <<>>
    /\ Len(combo_cards) < Len(cards)

-----------------------------------------------------------------------------
(* Properties of ComboExplorer.interactive_mode                            *)

\* the command being processed, lower-cased
C25_Command ==
    Lower(user_input[Len(user_input)])

\* the command is quit, exit or q in any letter case
C25_IsQuit ==
    C25_Command \in {<<"q","u","i","t">>, <<"e","x","i","t">>, <<"q">>}

\* the command begins with "combo " or with "suggest " in any letter case
C25_IsComboOrSuggest ==
    \/ Take(C25_Command, 6) = <<"c","o","m","b","o"," ">>
    \/ Take(C25_Command, 8) = <<"s","u","g","g","e","s","t"," ">>

\* C25: an error raised while a command is processed is printed and the
\* loop reads the next command; the loop ends only on the input quit, exit
\* or q (in any letter case), on which it always ends, or on a keyboard
\* interrupt; and an input that is neither a combo nor a suggest command
\* never invokes the generator.
C25_LoopSurvivesErrors ==
    [][/\ pc = "raised"
          => /\ pc' = "prompt"
             /\ printed' = Append(printed, <<"E","r","r","o","r",":"," ">>)
       /\ (pc' = "bye" /\ pc # "bye")
          => \/ KeyboardInterrupt
             \/ pc = "command" /\ C25_IsQuit
       /\ (pc = "command" /\ C25_IsQuit /\ ~KeyboardInterrupt)
          => pc' = "bye"
       /\ (pc = "command" /\ ~C25_IsComboOrSuggest)
          => /\ prompts' = prompts
             /\ deviated' = deviated
             /\ pc' \in {"prompt", "bye"}]_vars

\* the generator raised on a combo command, the error was printed, and the
\* loop read a further command, EXIT, on which it ended
C25_Witness ==
    /\ pc = "bye"
    /\ Len(user_input) = 2
    /\ Take(C25_Command, 4) = <<"e","x","i","t">>
    /\ Len(prompts) = 1
    /\ Len(cards_found) = 2
    /\ \E k \in 1..(Len(printed) - 1) :
          printed[k] = <<"E","r","r","o","r",":"," ">>

=============================================================================
